---- MODULE Spec2Model ----
(***************************************************************************)
(* A model of the persistence core of the booking services: the generic    *)
(* Repository (booking_db/repository.py), the transaction scope            *)
(* (booking_db/transaction.py), the session lifecycle                      *)
(* (booking_db/connection.py) and the service operations built on them     *)
(* (register_user, seed_hotels_from_data).                                 *)
(*                                                                         *)
(* Storage is the engine the services are configured with                  *)
(* (sqlite+aiosqlite, booking_users/config.py:25): one committed database, *)
(* at most one session holding an open write transaction, every other      *)
(* session reading the committed state.  A statement that needs the write  *)
(* lock while another session holds it waits.                              *)
(***************************************************************************)
EXTENDS Integers, Sequences, FiniteSets, TLC

VARIABLES
    db,        \* the committed store: table name -> set of rows
    open,      \* open[s]: session s holds an open write transaction
    work,      \* work[s]: the uncommitted working copy of session s
    clock,     \* the storage engine's now()
    last,      \* the latest repository call: arguments, result, time, view before
    pc,        \* pc[s]: position and locals of the request running on session s
    req,       \* req[s]: the request's input
    out,       \* out[s]: what the scope body raised, what reached the caller
    calls,     \* calls[s]: the session methods the request invoked, in order
    wrote      \* wrote[s]: ghost, the rows the request staged on the session

vars == <<db, open, work, clock, last, pc, req, out, calls, wrote>>

----------------------------------------------------------------------------
(* Bounds of the model *)

\* largest primary key the storage hands out
MaxId == 3
\* largest value of the storage clock
MaxClock == 1
\* largest primary key of an owned table (image, benefit, review)
MaxOwned == 1

Sessions == {"s1", "s2"}

\* SQL NULL in a numeric or timestamp column
Null == -1

Max(S) == CHOOSE x \in S : \A y \in S : y <= x

----------------------------------------------------------------------------
(* Entity model: booking_shared_models/models/user.py, hotel.py *)

Tables == {"users", "hotels", "hotel_images", "hotel_benefits", "hotel_reviews"}

\* the columns of each table (of a hotel, the ones the services filter, sort
\* and join on).  Every row also carries two ghost columns: "born", the id the
\* row was created with, and "by", the unit of work that staged it.  The Float
\* columns ratings and rating are held in tenths of a star
Columns(t) ==
    CASE t = "users" ->
           {"id", "email", "username", "hashed_password", "is_active",
            "created_at", "updated_at"}
      [] t = "hotels" ->
           {"id", "hotel_code", "city", "price", "ratings",
            "created_at", "updated_at"}
      [] t = "hotel_images" -> {"id", "hotel_id", "image_url", "created_at"}
      [] t = "hotel_benefits" -> {"id", "hotel_id", "benefit", "created_at"}
      [] t = "hotel_reviews" -> {"id", "hotel_id", "rating", "created_at"}

\* nullable=False columns without a default
Required(t) ==
    CASE t = "users" -> {"email", "username", "hashed_password"}
      [] t = "hotels" -> {"hotel_code", "city", "price"}
      [] t = "hotel_images" -> {"hotel_id", "image_url"}
      [] t = "hotel_benefits" -> {"hotel_id", "benefit"}
      [] t = "hotel_reviews" -> {"hotel_id", "rating"}

\* unique=True columns, and the primary key
UniqueCols(t) ==
    CASE t = "users" -> {"id", "email", "username"}
      [] t = "hotels" -> {"id", "hotel_code"}
      [] OTHER -> {"id"}

\* columns carrying onupdate=func.now()
OnUpdateCols(t) ==
    IF t \in {"users", "hotels"} THEN {"updated_at"} ELSE {}

\* the value of a column the INSERT does not name
ColumnDefault(t, c, now) ==
    CASE c = "created_at" -> now          \* server_default=func.now()
      [] c = "is_active" -> TRUE          \* default=True
      [] OTHER -> Null

EmptyStore == [t \in Tables |-> {}]

\* ghost: the unit of work of a row staged by no request
NoUnit == <<"none", "none">>

NoData == [c \in {} |-> Null]

----------------------------------------------------------------------------
(* The storage engine's statements, on one table (a set of rows) *)

Ids(rows) == {r.id : r \in rows}

\* INTEGER PRIMARY KEY: one more than the largest key in the table
NextId(rows) == IF rows = {} THEN 1 ELSE Max(Ids(rows)) + 1

\* the row an INSERT of `data` builds
NewRow(t, rows, data, now) ==
    LET id == IF "id" \in DOMAIN data THEN data["id"] ELSE NextId(rows)
    IN  [c \in Columns(t) \cup {"born", "by"} |->
            CASE c = "id" -> id
              [] c = "born" -> id
              [] c = "by" -> NoUnit
              [] c \in DOMAIN data -> data[c]
              [] OTHER -> ColumnDefault(t, c, now)]

\* the PRIMARY KEY constraint alone: what the check would be had the email and
\* username columns not been declared unique
UniqueClash_KeyOnly(t, others, row) ==
    \E o \in others : o.id = row.id

\* a UNIQUE or PRIMARY KEY constraint the row breaks against the other rows
UniqueClash(t, others, row) ==
    \E o \in others : \E c \in UniqueCols(t) : o[c] = row[c]

\* a NOT NULL constraint an INSERT of `data` breaks
MissingRequired(t, data) == \E c \in Required(t) : c \notin DOMAIN data

\* SELECT ... WHERE id = :id
SelectById(rows, id) == {r \in rows : r.id = id}

\* SELECT ... WHERE c1 = v1 AND c2 = v2 ...
SelectBy(rows, crit) == {r \in rows : \A c \in DOMAIN crit : r[c] = crit[c]}

\* an UPDATE that rewrites the row: columns with a default that the payload
\* does not name fall back to it
UpdatedRow_Replace(t, r, data, now) ==
    [c \in DOMAIN r |->
        CASE c \in DOMAIN data -> data[c]
          [] c \in OnUpdateCols(t) -> now
          [] c \in {"is_active", "created_at"} -> ColumnDefault(t, c, now)
          [] OTHER -> r[c]]

\* the row an UPDATE ... SET data turns `r` into
UpdatedRow(t, r, data, now) ==
    [c \in DOMAIN r |->
        CASE c \in DOMAIN data -> data[c]
          [] c \in OnUpdateCols(t) -> now
          [] OTHER -> r[c]]

\* DELETE without its WHERE clause
DeleteRows_NoWhere(rows, id) == {}

\* DELETE ... WHERE id = :id
DeleteRows(rows, id) == {r \in rows : r.id # id}

----------------------------------------------------------------------------
(* Repository[T]: booking_db/repository.py.  Each method is a function of  *)
(* the session's view of the store; it yields the view afterwards, the     *)
(* entities returned (none: absent), delete's boolean, and what it raised. *)

Result(store, ret, flag, raised) ==
    [store |-> store, ret |-> ret, flag |-> flag, raised |-> raised]

\* create without session.add: the entity is returned but never staged
RepoCreate_NoAdd(view, t, data, now) ==
    LET row == NewRow(t, view[t], data, now)
    IN  Result(view, {row}, FALSE, "none")

\* create: self.model(**data); session.add; await session.flush()
RepoCreate(view, t, data, now) ==
    LET row == NewRow(t, view[t], data, now)
    IN  IF MissingRequired(t, data) \/ UniqueClash(t, view[t], row)
        THEN Result(view, {}, FALSE, "IntegrityError")
        ELSE Result([view EXCEPT ![t] = @ \cup {row}], {row}, FALSE, "none")

\* get: select(model).where(model.id == id); scalars().first()
RepoGet(view, t, id) ==
    Result(view, SelectById(view[t], id), FALSE, "none")

\* get_by that never finds a row
RepoGetBy_Miss(view, t, crit) == Result(view, {}, FALSE, "none")

\* get_by: select(model).where(field == value)...; scalars().first()
RepoGetBy(view, t, crit) ==
    LET found == SelectBy(view[t], crit)
    IN  Result(view,
               IF found = {} THEN {}
               ELSE {CHOOSE r \in found : \A o \in found : r.id <= o.id},
               FALSE, "none")

\* update that inserts the payload when the id matches no row
RepoUpdate_Upsert(view, t, id, data, now) ==
    LET hit == SelectById(view[t], id)
        made == IF hit = {} THEN {NewRow(t, view[t], data, now)}
                ELSE {[c \in DOMAIN r |-> IF c \in DOMAIN data THEN data[c] ELSE r[c]] :
                        r \in hit}
    IN  Result([view EXCEPT ![t] = (@ \ hit) \cup made], made, FALSE, "none")

\* update: update(model).where(model.id == id).values(**data).returning(model)
RepoUpdate(view, t, id, data, now) ==
    LET hit == SelectById(view[t], id)
        rest == view[t] \ hit
        new == {UpdatedRow(t, r, data, now) : r \in hit}
    IN  IF \E n \in new : UniqueClash(t, rest, n)
        THEN Result(view, {}, FALSE, "IntegrityError")
        ELSE Result([view EXCEPT ![t] = rest \cup new], new, FALSE, "none")

\* the tables whose hotel_id is ForeignKey("hotels.id", ondelete="CASCADE")
OwnedTables == {"hotel_images", "hotel_benefits", "hotel_reviews"}

\* whether the engine enforces the FOREIGN KEY clauses of the schema.  SQLite
\* does so only on a connection that has issued PRAGMA foreign_keys=ON, and
\* the engine is created without any connect-time statement
ForeignKeysOn == FALSE

\* what the engine does to the owned tables when it deletes row id of table t
OnDeleteCascade(store, t, id) ==
    IF ForeignKeysOn /\ t = "hotels"
    THEN [x \in Tables |->
            IF x \in OwnedTables THEN {r \in store[x] : r.hotel_id # id}
            ELSE store[x]]
    ELSE store

\* delete: delete(model).where(model.id == id); result.rowcount > 0.  The
\* statement is a Core DELETE: the relationship cascade of the ORM, which acts
\* on session.delete(obj), takes no part in it
RepoDelete(view, t, id) ==
    Result(OnDeleteCascade([view EXCEPT ![t] = DeleteRows(@, id)], t, id), {},
           SelectById(view[t], id) # {}, "none")

----------------------------------------------------------------------------
(* Sessions: booking_db/connection.py and the AsyncSession they hand out *)

\* a session that reads what another session has staged and not committed
View_Dirty(s) ==
    IF open[s] THEN work[s]
    ELSE IF \E o \in Sessions : open[o]
         THEN work[CHOOSE o \in Sessions : open[o]]
         ELSE db

\* what session s reads: its own uncommitted work, else the committed store
View(s) == IF open[s] THEN work[s] ELSE db

\* a statement that writes needs the engine's write lock
CanWrite(s) == \A o \in Sessions \ {s} : ~open[o]

\* the state of every request variable while no request runs
At(a, i, j, hid, err) == [at |-> a, i |-> i, j |-> j, hid |-> hid, err |-> err]

NoOutcome == [body |-> "none", raised |-> "none", returned |-> FALSE]

NoRequest ==
    /\ pc = [s \in Sessions |-> At("idle", 0, 0, Null, "none")]
    /\ req = [s \in Sessions |-> [kind |-> "none"]]
    /\ out = [s \in Sessions |-> NoOutcome]
    /\ calls = [s \in Sessions |-> <<>>]
    /\ wrote = [s \in Sessions |-> {}]

NoCall ==
    [op |-> "none", sess |-> "s1", id |-> Null, data |-> NoData, ret |-> {},
     flag |-> FALSE, raised |-> "none", at |-> 0, before |-> EmptyStore]

\* the session after a repository call: a successful write leaves its
\* transaction open on the new working copy; a failed flush has rolled the
\* session's transaction back
AfterCall(s, r, isFlush) ==
    IF r.raised # "none" /\ isFlush
    THEN /\ open' = [open EXCEPT ![s] = FALSE]
         /\ work' = [work EXCEPT ![s] = EmptyStore]
    ELSE /\ open' = [open EXCEPT ![s] = TRUE]
         /\ work' = [work EXCEPT ![s] = r.store]

----------------------------------------------------------------------------
(* Repository calls made directly on a session (tests/unit/test_repository.py) *)

Emails == {"a@x", "b@x"}
Usernames == {"ann", "bob"}

UserPayloads ==
    {[email |-> "a@x", username |-> "ann", hashed_password |-> "h1"],
     [email |-> "b@x", username |-> "bob", hashed_password |-> "h1",
      is_active |-> FALSE],
     [email |-> "b@x", username |-> "ann", hashed_password |-> "h1"],
     [username |-> "ann", hashed_password |-> "h1"]}

UpdatePayloads ==
    {NoData, [email |-> "b@x"], [is_active |-> FALSE],
     [username |-> "bob", hashed_password |-> "h2"], [id |-> 2]}

CallIds == 1 .. MaxId

Called(op, s, id, data, r) ==
    last' = [op |-> op, sess |-> s, id |-> id, data |-> data, ret |-> r.ret,
             flag |-> r.flag, raised |-> r.raised, at |-> clock,
             before |-> View(s)]

CallCreate(s, data) ==
    /\ CanWrite(s)
    /\ NextId(View(s).users) <= MaxId
    /\ LET r == RepoCreate(View(s), "users", data, clock)
       IN  AfterCall(s, r, TRUE) /\ Called("create", s, Null, data, r)
    /\ UNCHANGED <<db, clock, pc, req, out, calls, wrote>>

CallGet(s, id) ==
    /\ Called("get", s, id, NoData, RepoGet(View(s), "users", id))
    /\ UNCHANGED <<db, open, work, clock, pc, req, out, calls, wrote>>

CallUpdate(s, id, data) ==
    /\ CanWrite(s)
    /\ LET r == RepoUpdate(View(s), "users", id, data, clock)
       IN  AfterCall(s, r, FALSE) /\ Called("update", s, id, data, r)
    /\ UNCHANGED <<db, clock, pc, req, out, calls, wrote>>

CallDelete(s, id) ==
    /\ CanWrite(s)
    /\ LET r == RepoDelete(View(s), "users", id)
       IN  AfterCall(s, r, FALSE) /\ Called("delete", s, id, NoData, r)
    /\ UNCHANGED <<db, clock, pc, req, out, calls, wrote>>

\* await session.rollback(), await session.close()
CallRollback(s) ==
    /\ open[s]
    /\ open' = [open EXCEPT ![s] = FALSE]
    /\ work' = [work EXCEPT ![s] = EmptyStore]
    /\ last' = [NoCall EXCEPT !.op = "rollback", !.sess = s]
    /\ UNCHANGED <<db, clock, pc, req, out, calls, wrote>>

\* time passes in the storage engine
Tick ==
    /\ clock < MaxClock
    /\ clock' = clock + 1
    /\ UNCHANGED <<db, open, work, last, pc, req, out, calls, wrote>>

InitRepo ==
    /\ db = EmptyStore
    /\ open = [s \in Sessions |-> FALSE]
    /\ work = [s \in Sessions |-> EmptyStore]
    /\ clock = 0
    /\ last = NoCall
    /\ NoRequest

\* the session the repository is exercised on
RepoSessions == {"s1"}

NextRepo ==
    \/ \E s \in RepoSessions, d \in UserPayloads : CallCreate(s, d)
    \/ \E s \in RepoSessions, i \in CallIds : CallGet(s, i)
    \/ \E s \in RepoSessions, i \in CallIds, d \in UpdatePayloads :
          CallUpdate(s, i, d)
    \/ \E s \in RepoSessions, i \in CallIds : CallDelete(s, i)
    \/ \E s \in RepoSessions : CallRollback(s)
    \/ Tick

SpecRepo == InitRepo /\ [][NextRepo]_vars

----------------------------------------------------------------------------
(* Properties of the repository calls *)

\* the session's view of the users table before and after the latest call
UsersBefore == last.before.users
UsersNow == View(last.sess).users

\* the entities a get(id) issued now on the session of the latest call returns
GetNow(id) == RepoGet(View(last.sess), "users", id).ret

\* the latest call named an id that no stored entity had
AbsentId == SelectById(UsersBefore, last.id) = {}

\* C6: every entity returned by create has a non-null id, and a get of
\* that id on the same session returns an entity with that id that equals
\* the supplied value in every supplied field.
C6_CreateThenGet ==
    (last.op = "create" /\ last.raised = "none") =>
        /\ Cardinality(last.ret) = 1
        /\ \A e \in last.ret :
              /\ e.id # Null
              /\ Cardinality(GetNow(e.id)) = 1
              /\ \A g \in GetNow(e.id) :
                    /\ g.id = e.id
                    /\ \A c \in DOMAIN last.data : g[c] = last.data[c]

C6_Witness ==
    /\ last.op = "create" /\ last.raised = "none"
    /\ "is_active" \in DOMAIN last.data
    /\ UsersBefore # {}

\* C7: for an id no stored entity has, get returns absent, update returns
\* absent and creates nothing, delete returns false; none raises and the
\* stored entities are unchanged.
C7_AbsentIdIsNoError ==
    (last.op \in {"get", "update", "delete"} /\ AbsentId) =>
        /\ last.raised = "none"
        /\ last.ret = {}
        /\ last.flag = FALSE
        /\ UsersNow = UsersBefore

C7_Witness ==
    /\ last.op = "update" /\ AbsentId
    /\ last.data # NoData
    /\ UsersBefore # {}

\* C8: delete returns true iff an entity with the id existed just before
\* the call; after a true result get(id) on the session is absent; every
\* entity with another id is unchanged.
C8_DeleteResult ==
    last.op = "delete" =>
        /\ last.flag <=> ~AbsentId
        /\ last.flag => GetNow(last.id) = {}
        /\ {r \in UsersNow : r.id # last.id}
             = {r \in UsersBefore : r.id # last.id}

C8_Witness ==
    /\ last.op = "delete" /\ last.flag
    /\ UsersNow # {}

\* the stored columns of a users row
UserCols == Columns("users")

\* `new` is `old` with exactly the payload's fields set, every stored
\* column outside `free` and outside the payload kept
PartialUpdateOf(new, old, data, free) ==
    \A c \in UserCols :
        IF c \in DOMAIN data THEN new[c] = data[c]
        ELSE c \in free \/ new[c] = old[c]

\* the latest call was an update that found its entity
UpdateHit == last.op = "update" /\ last.raised = "none" /\ ~AbsentId

\* C9 as claimed: update sets exactly the payload's fields and leaves every
\* other stored field of the entity, timestamps included, and every other
\* entity unchanged.
C9_Original ==
    UpdateHit =>
        /\ \A old \in SelectById(UsersBefore, last.id) : \A new \in last.ret :
              PartialUpdateOf(new, old, last.data, {})
        /\ UsersNow \ last.ret = UsersBefore \ SelectById(UsersBefore, last.id)

\* C9 as amended: the same, except that updated_at, when the payload does not
\* name it, is set to the storage engine's current time.
C9_PartialUpdate ==
    UpdateHit =>
        /\ Cardinality(last.ret) = 1
        /\ last.ret \subseteq UsersNow
        /\ \A old \in SelectById(UsersBefore, last.id) : \A new \in last.ret :
              /\ PartialUpdateOf(new, old, last.data, {"updated_at"})
              /\ "updated_at" \notin DOMAIN last.data => new.updated_at = last.at
        /\ UsersNow \ last.ret = UsersBefore \ SelectById(UsersBefore, last.id)

C9_Witness ==
    /\ UpdateHit
    /\ DOMAIN last.data = {"email"}
    /\ Cardinality(UsersNow) = 2
    /\ \E r \in last.ret : r.is_active = FALSE /\ r.created_at # r.updated_at

\* C10 as claimed: every surviving entity still has the id create gave it.
C10_IdentityImmutable ==
    \A s \in RepoSessions : \A r \in View(s).users : r.id = r.born

----------------------------------------------------------------------------
(* transaction(session): booking_db/transaction.py                         *)
(*     try: yield; await session.commit()                                  *)
(*     except Exception: await session.rollback(); raise                   *)

\* failures deriving from Exception, and the one that does not
Exceptions ==
    {"IntegrityError", "OperationalError", "ConflictError", "NotFoundError"}
Cancelled == "CancelledError"

\* an except clause that forgets the rollback
Handler_NoRollback(e) == "close"

\* a scope that commits on every exit path
Handler_CommitAnyway(e) == "commit"

\* where control goes when something is raised inside the try block: the
\* except clause catches an Exception; anything else leaves the scope and
\* reaches the session's close
Handler(e) == IF e \in Exceptions THEN "rollback" ELSE "close"

\* the bare `raise` of the except clause
Reraise(e) == e

Log(s, call) == calls' = [calls EXCEPT ![s] = Append(@, call)]

\* the rows of r.store that the call added, stamped with their unit of work
Stamp(before, after, unit) ==
    [t \in Tables |->
        {IF r \in before[t] THEN r ELSE [r EXCEPT !["by"] = unit] : r \in after[t]}]

\* the positions of a request that lie inside the try block of a scope, at
\* an await
BodyAts == {"check", "hotel", "image", "benefit", "review", "reg_create"}

\* a scope that forgets the commit
OnNormalExit_Skip == "close"

\* leaving the try block normally: await session.commit()
OnNormalExit == "commit"

\* something is raised at an await inside the body
RaiseInBody(s, e) ==
    /\ pc' = [pc EXCEPT ![s] = [@ EXCEPT !.at = Handler(e), !.err = e]]
    /\ out' = [out EXCEPT ![s] = [@ EXCEPT !.body = e,
                  !.raised = IF Handler(e) = "close" THEN e ELSE @]]

\* a repository create awaited inside a scope body; `next` is the position
\* after it
BodyCreate(s, t, data, next) ==
    /\ CanWrite(s)
    /\ LET r == RepoCreate(View(s), t, data, clock)
           stamped == Stamp(View(s), r.store, <<s, "body">>)
       IN  /\ AfterCall(s, [r EXCEPT !.store = stamped], TRUE)
           /\ IF r.raised = "none"
              THEN /\ pc' = [pc EXCEPT ![s] =
                               [next EXCEPT !.hid =
                                   IF t = "hotels"
                                   THEN (CHOOSE e \in r.ret : TRUE).id
                                   ELSE pc[s].hid]]
                   /\ wrote' = [wrote EXCEPT ![s] =
                                  @ \cup {<<"body", t, e.id>> : e \in r.ret}]
                   /\ out' = out
              ELSE /\ RaiseInBody(s, r.raised)
                   /\ wrote' = wrote
    /\ Log(s, "flush")
    /\ UNCHANGED <<db, clock, last, req>>

\* a storage failure raised by the statement awaited in the body
BodyFails(s) ==
    /\ pc[s].at \in BodyAts
    /\ RaiseInBody(s, "OperationalError")
    /\ UNCHANGED <<db, open, work, clock, last, req, calls, wrote>>

\* the request is cancelled while it awaits a statement of the body
Cancel(s) ==
    /\ pc[s].at \in BodyAts
    /\ RaiseInBody(s, Cancelled)
    /\ UNCHANGED <<db, open, work, clock, last, req, calls, wrote>>

\* the request is cancelled while it awaits session.commit(): the commit
\* has been invoked, and the engine has applied it or has not
CancelAtCommit(s) ==
    /\ pc[s].at = "commit"
    /\ \/ /\ db' = View(s)
          /\ open' = [open EXCEPT ![s] = FALSE]
          /\ work' = [work EXCEPT ![s] = EmptyStore]
       \/ UNCHANGED <<db, open, work>>
    /\ pc' = [pc EXCEPT ![s] = [@ EXCEPT !.at = Handler(Cancelled), !.err = Cancelled]]
    /\ out' = [out EXCEPT ![s] = [@ EXCEPT !.raised = Cancelled]]
    /\ Log(s, "commit")
    /\ UNCHANGED <<clock, last, req, wrote>>

\* the request is cancelled while it awaits session.rollback()
CancelAtRollback(s) ==
    /\ pc[s].at = "rollback"
    /\ pc' = [pc EXCEPT ![s] = [@ EXCEPT !.at = Handler(Cancelled), !.err = Cancelled]]
    /\ out' = [out EXCEPT ![s] = [@ EXCEPT !.raised = Cancelled]]
    /\ Log(s, "rollback")
    /\ UNCHANGED <<db, open, work, clock, last, req, wrote>>

\* await session.commit() succeeds: the scope is left and the request returns
TxCommit(s) ==
    /\ pc[s].at = "commit"
    /\ db' = View(s)
    /\ open' = [open EXCEPT ![s] = FALSE]
    /\ work' = [work EXCEPT ![s] = EmptyStore]
    /\ pc' = [pc EXCEPT ![s] = [@ EXCEPT !.at = "close"]]
    /\ out' = [out EXCEPT ![s] = [@ EXCEPT !.returned = TRUE]]
    /\ Log(s, "commit")
    /\ UNCHANGED <<clock, last, req, wrote>>

\* a commit that raises after having made the unit of work durable
TxCommitFails_Durable(s) ==
    /\ pc[s].at = "commit"
    /\ db' = View(s)
    /\ pc' = [pc EXCEPT ![s] =
                [@ EXCEPT !.at = Handler("OperationalError"),
                          !.err = "OperationalError"]]
    /\ Log(s, "commit")
    /\ UNCHANGED <<open, work, clock, last, req, out, wrote>>

\* await session.commit() raises: nothing is committed, the except clause runs
TxCommitFails(s) ==
    /\ pc[s].at = "commit"
    /\ pc' = [pc EXCEPT ![s] =
                [@ EXCEPT !.at = Handler("OperationalError"),
                          !.err = "OperationalError"]]
    /\ Log(s, "commit")
    /\ UNCHANGED <<db, open, work, clock, last, req, out, wrote>>

\* await session.rollback(); raise
TxRollback(s) ==
    /\ pc[s].at = "rollback"
    /\ open' = [open EXCEPT ![s] = FALSE]
    /\ work' = [work EXCEPT ![s] = EmptyStore]
    /\ pc' = [pc EXCEPT ![s] = [@ EXCEPT !.at = "close"]]
    /\ out' = [out EXCEPT ![s] = [@ EXCEPT !.raised = Reraise(pc[s].err)]]
    /\ Log(s, "rollback")
    /\ UNCHANGED <<db, clock, last, req, wrote>>

\* get_session: finally: await session.close()
SessionClose(s) ==
    /\ pc[s].at = "close"
    /\ open' = [open EXCEPT ![s] = FALSE]
    /\ work' = [work EXCEPT ![s] = EmptyStore]
    /\ pc' = [pc EXCEPT ![s] = [@ EXCEPT !.at = "done"]]
    /\ Log(s, "close")
    /\ UNCHANGED <<db, clock, last, req, out, wrote>>

----------------------------------------------------------------------------
(* seed_hotels_from_data: booking_hotels/services/hotel_service.py *)

\* the hotels file: per hotel its code and the children to create
SeedData ==
    << [hotelCode |-> 71, city |-> "pune", price |-> 100, ratings |-> 40,
        images |-> <<"u1">>, benefits |-> <<"wifi">>, reviews |-> <<50>>],
       [hotelCode |-> 72, city |-> "goa", price |-> 200, ratings |-> 30,
        images |-> <<"u2">>, benefits |-> <<>>, reviews |-> <<>>] >>

ChildPhases == <<"image", "benefit", "review">>

Children(i, ph) ==
    CASE ph = "image" -> SeedData[i].images
      [] ph = "benefit" -> SeedData[i].benefits
      [] ph = "review" -> SeedData[i].reviews

\* the position after hotel i is done: the next hotel's existence check, or
\* the end of the `async with` block
AfterHotel(s, i) ==
    IF i < Len(SeedData)
    THEN [pc[s] EXCEPT !.at = "check", !.i = i + 1, !.j = 1]
    ELSE [pc[s] EXCEPT !.at = OnNormalExit]

\* the next create of hotel i from child list k, element j on
RECURSIVE NextChild(_, _, _, _)
NextChild(s, i, k, j) ==
    IF k > Len(ChildPhases) THEN AfterHotel(s, i)
    ELSE IF j <= Len(Children(i, ChildPhases[k]))
         THEN [pc[s] EXCEPT !.at = ChildPhases[k], !.j = j]
         ELSE NextChild(s, i, k + 1, 1)

PhaseIndex(ph) == CHOOSE k \in 1 .. Len(ChildPhases) : ChildPhases[k] = ph

\* a write staged on the session before the scope is entered
PreStage(s) ==
    /\ pc[s].at = "pre"
    /\ CanWrite(s)
    /\ LET r == RepoCreate(View(s), "hotels",
                    [hotel_code |-> 70, city |-> "pune", price |-> 50], clock)
       IN  /\ AfterCall(s, [r EXCEPT !.store =
                                Stamp(View(s), r.store, <<s, "pre">>)], TRUE)
           /\ wrote' = [wrote EXCEPT ![s] =
                          @ \cup {<<"pre", "hotels", e.id>> : e \in r.ret}]
           /\ IF r.raised = "none"
              THEN /\ pc' = [pc EXCEPT ![s] = [@ EXCEPT !.at = "check", !.i = 1, !.j = 1]]
                   /\ out' = out
              ELSE /\ pc' = [pc EXCEPT ![s] = [@ EXCEPT !.at = "close"]]
                   /\ out' = [out EXCEPT ![s] = [@ EXCEPT !.raised = r.raised]]
    /\ Log(s, "flush")
    /\ UNCHANGED <<db, clock, last, req>>

\* existing_hotel = await hotel_repository.get_by_hotel_code(...); continue
SeedCheck(s) ==
    /\ pc[s].at = "check"
    /\ LET i == pc[s].i
           r == RepoGetBy(View(s), "hotels", [hotel_code |-> SeedData[i].hotelCode])
       IN  pc' = [pc EXCEPT ![s] =
                    IF r.ret # {} THEN AfterHotel(s, i)
                    ELSE [@ EXCEPT !.at = "hotel"]]
    /\ Log(s, "execute")
    /\ UNCHANGED <<db, open, work, clock, last, req, out, wrote>>

\* hotel = await hotel_repository.create(...)
SeedHotel(s) ==
    /\ pc[s].at = "hotel"
    /\ LET i == pc[s].i
           h == SeedData[i]
       IN  BodyCreate(s, "hotels",
                      [hotel_code |-> h.hotelCode, city |-> h.city,
                       price |-> h.price, ratings |-> h.ratings],
                      NextChild(s, i, 1, 1))

\* await hotel_image_repository.create / hotel_benefit_repository.create /
\* hotel_review_repository.create, with hotel_id = hotel.id
SeedChild(s) ==
    /\ pc[s].at \in {"image", "benefit", "review"}
    /\ LET i == pc[s].i
           j == pc[s].j
           ph == pc[s].at
           v == Children(i, ph)[j]
           data == CASE ph = "image" -> [hotel_id |-> pc[s].hid, image_url |-> v]
                     [] ph = "benefit" -> [hotel_id |-> pc[s].hid, benefit |-> v]
                     [] ph = "review" -> [hotel_id |-> pc[s].hid, rating |-> v]
           t == CASE ph = "image" -> "hotel_images"
                  [] ph = "benefit" -> "hotel_benefits"
                  [] ph = "review" -> "hotel_reviews"
       IN  BodyCreate(s, t, data, NextChild(s, i, PhaseIndex(ph), j + 1))

SeedRequests == {[kind |-> "seed", pre |-> b] : b \in BOOLEAN}

InitSeed ==
    /\ db = EmptyStore
    /\ open = [s \in Sessions |-> FALSE]
    /\ work = [s \in Sessions |-> EmptyStore]
    /\ clock = 0
    /\ last = NoCall
    /\ req \in [Sessions -> SeedRequests]
    /\ pc = [s \in Sessions |->
               At(IF req[s].pre THEN "pre" ELSE "check", 1, 1, Null, "none")]
    /\ out = [s \in Sessions |-> NoOutcome]
    /\ calls = [s \in Sessions |-> <<>>]
    /\ wrote = [s \in Sessions |-> {}]

NextSeed ==
    \/ \E s \in Sessions : PreStage(s)
    \/ \E s \in Sessions : SeedCheck(s)
    \/ \E s \in Sessions : SeedHotel(s)
    \/ \E s \in Sessions : SeedChild(s)
    \/ \E s \in Sessions : BodyFails(s)
    \/ \E s \in Sessions : Cancel(s)
    \/ \E s \in Sessions : CancelAtCommit(s)
    \/ \E s \in Sessions : CancelAtRollback(s)
    \/ \E s \in Sessions : TxCommit(s)
    \/ \E s \in Sessions : TxCommitFails(s)
    \/ \E s \in Sessions : TxRollback(s)
    \/ \E s \in Sessions : SessionClose(s)

SpecSeed == InitSeed /\ [][NextSeed]_vars

----------------------------------------------------------------------------
(* Properties of the transaction scope *)

Has(s, call) == \E k \in DOMAIN calls[s] : calls[s][k] = call

Count(s, call) == Cardinality({k \in DOMAIN calls[s] : calls[s][k] = call})

\* the rows of unit <<s, phase>> that every session can read
Committed(s, phase) ==
    UNION {{<<phase, t, r.id>> : r \in {x \in db[t] : x.by = <<s, phase>>}} :
              t \in Tables}

\* the request has left its transaction scope
Left(s) == pc[s].at \in {"close", "done"}

WasCancelled(s) == pc[s].err = Cancelled

\* C1: when the body of a scope raises a failure, rollback is invoked, commit
\* is never invoked for the scope, none of the body's writes becomes visible
\* to another session, and the failure reaching the caller is the one the
\* body raised.
C1_FailureRollsBack ==
    \A s \in Sessions :
        out[s].body \in Exceptions =>
            /\ ~Has(s, "commit")
            /\ Committed(s, "body") = {}
            /\ Left(s) => Has(s, "rollback")
            /\ (Left(s) /\ ~WasCancelled(s)) => out[s].raised = out[s].body

C1_Witness ==
    \E s \in Sessions :
        /\ out[s].body = "OperationalError" /\ pc[s].at = "done"
        /\ Cardinality(wrote[s]) >= 2
        /\ out[s].raised = "OperationalError"

\* the request entered its scope and its body ran to the end
BodyCompleted(s) ==
    /\ Has(s, "execute")
    /\ out[s].body = "none"
    /\ pc[s].at \in {"commit", "rollback", "close", "done"}

\* the index of the only commit in the calls of s
CommitAt(s) == CHOOSE k \in DOMAIN calls[s] : calls[s][k] = "commit"

\* C2: when the body completes normally, commit is invoked exactly once,
\* after the last body operation; when it succeeds no rollback is invoked,
\* and afterwards every change staged on the session is committed, those
\* staged before the scope was entered included.
C2_NormalExitCommits ==
    \A s \in Sessions :
        /\ Count(s, "commit") <= 1
        /\ (BodyCompleted(s) /\ pc[s].at # "commit") =>
              /\ Count(s, "commit") = 1
              /\ \A k \in DOMAIN calls[s] :
                    calls[s][k] \in {"flush", "execute"} => k < CommitAt(s)
        /\ out[s].returned =>
              /\ BodyCompleted(s)
              /\ ~Has(s, "rollback")
              /\ wrote[s] = Committed(s, "pre") \cup Committed(s, "body")

C2_Witness ==
    \E s \in Sessions :
        /\ out[s].returned /\ pc[s].at = "done"
        /\ Committed(s, "pre") # {}
        /\ Cardinality(Committed(s, "body")) >= 2

\* the request's unit of work is still under way
InScope(s) == pc[s].at \in BodyAts \cup {"pre", "commit", "rollback"}

\* C3: every other session observes all of the writes of a unit of work or
\* none of them; a unit that fails or is cancelled between its writes ends
\* fully rolled back.
C3_AllOrNothing ==
    \A s \in Sessions :
        LET seen == Committed(s, "pre") \cup Committed(s, "body")
        IN  /\ seen = {} \/ seen = wrote[s]
            /\ InScope(s) => seen = {}
            /\ out[s].body # "none" => seen = {}

C3_Witness ==
    \E s \in Sessions :
        /\ out[s].body = Cancelled /\ pc[s].at = "done"
        /\ Cardinality(wrote[s]) >= 3
        /\ \E o \in Sessions \ {s} : Cardinality(Committed(o, "body")) >= 3

----------------------------------------------------------------------------
(* register_user: booking_users/services/user_service.py *)

\* get_password_hash, an opaque injective function of the password
PasswordHash(p) == <<"hash", p>>

\* existing_email = await user_repository.get_by_email(...)
RegCheckEmail(s) ==
    /\ pc[s].at = "reg_email"
    /\ LET r == RepoGetBy(View(s), "users", [email |-> req[s].email])
       IN  IF r.ret # {}
           THEN /\ pc' = [pc EXCEPT ![s] = [@ EXCEPT !.at = "close"]]
                /\ out' = [out EXCEPT ![s] = [@ EXCEPT !.raised = "ConflictError"]]
           ELSE /\ pc' = [pc EXCEPT ![s] = [@ EXCEPT !.at = "reg_username"]]
                /\ out' = out
    /\ Log(s, "execute")
    /\ UNCHANGED <<db, open, work, clock, last, req, wrote>>

\* existing_username = await user_repository.get_by_username(...)
RegCheckUsername(s) ==
    /\ pc[s].at = "reg_username"
    /\ LET r == RepoGetBy(View(s), "users", [username |-> req[s].username])
       IN  IF r.ret # {}
           THEN /\ pc' = [pc EXCEPT ![s] = [@ EXCEPT !.at = "close"]]
                /\ out' = [out EXCEPT ![s] = [@ EXCEPT !.raised = "ConflictError"]]
           ELSE /\ pc' = [pc EXCEPT ![s] = [@ EXCEPT !.at = "reg_create"]]
                /\ out' = out
    /\ Log(s, "execute")
    /\ UNCHANGED <<db, open, work, clock, last, req, wrote>>

\* async with transaction(session): user = await user_repository.create(...)
RegCreate(s) ==
    /\ pc[s].at = "reg_create"
    /\ BodyCreate(s, "users",
                  [email |-> req[s].email, username |-> req[s].username,
                   hashed_password |-> PasswordHash(req[s].password),
                   is_active |-> TRUE],
                  [pc[s] EXCEPT !.at = OnNormalExit])

RegRequests ==
    {[kind |-> "register", email |-> e, username |-> u, password |-> "pw"] :
        e \in Emails, u \in Usernames}

\* the users table before the requests arrive: empty, or one stored user
StoredUsers ==
    {{}, {NewRow("users", {},
                 [email |-> "a@x", username |-> "ann",
                  hashed_password |-> PasswordHash("pw"), is_active |-> TRUE], 0)}}

InitRegister ==
    /\ db \in {[EmptyStore EXCEPT !.users = u] : u \in StoredUsers}
    /\ open = [s \in Sessions |-> FALSE]
    /\ work = [s \in Sessions |-> EmptyStore]
    /\ clock = 0
    /\ last = NoCall
    /\ req \in [Sessions -> RegRequests]
    /\ pc = [s \in Sessions |-> At("reg_email", 0, 0, Null, "none")]
    /\ out = [s \in Sessions |-> NoOutcome]
    /\ calls = [s \in Sessions |-> <<>>]
    /\ wrote = [s \in Sessions |-> {}]

NextRegister ==
    \/ \E s \in Sessions : RegCheckEmail(s)
    \/ \E s \in Sessions : RegCheckUsername(s)
    \/ \E s \in Sessions : RegCreate(s)
    \/ \E s \in Sessions : TxCommit(s)
    \/ \E s \in Sessions : TxRollback(s)
    \/ \E s \in Sessions : SessionClose(s)

SpecRegister == InitRegister /\ [][NextRegister]_vars

----------------------------------------------------------------------------
(* Properties of register_user *)

Finished(s) == pc[s].at = "done"

\* C4 as claimed: of two register_user calls with the same email on separate
\* sessions at most one returns a created user, and the one that does not
\* surfaces ConflictError.
C4_RaceSurfacesConflict ==
    \A s \in Sessions : \A o \in Sessions \ {s} :
        (req[s].email = req[o].email /\ Finished(s) /\ Finished(o)) =>
            /\ ~(out[s].returned /\ out[o].returned)
            /\ ~out[o].returned => out[o].raised = "ConflictError"

\* a committed user has the email (else the username) the request of s asks for
Taken(s) ==
    \/ pc[s].at = "reg_email" /\ \E u \in db.users : u.email = req[s].email
    \/ pc[s].at = "reg_username" /\ \E u \in db.users : u.username = req[s].username

WriteCalls == {"flush", "commit", "rollback"}

\* C5: called with an email, or failing that a username, that a committed
\* user already has, register_user raises ConflictError before any scope is
\* entered: no flush, commit or rollback is issued and the stored users are
\* unchanged.
C5_ConflictBeforeScope ==
    /\ [][\A s \in Sessions :
            (Taken(s) /\ pc'[s] # pc[s]) =>
                /\ out'[s].raised = "ConflictError"
                /\ pc'[s].at = "close"
                /\ db' = db
                /\ ~open'[s]]_vars
    /\ [](\A s \in Sessions :
            out[s].raised = "ConflictError" =>
                /\ \A k \in DOMAIN calls[s] : calls[s][k] \notin WriteCalls
                /\ wrote[s] = {}
                /\ \A u \in db.users : u.by # <<s, "body">>)

C5_Witness ==
    \E s \in Sessions :
        /\ out[s].raised = "ConflictError" /\ Finished(s)
        /\ calls[s] = <<"execute", "execute", "close">>
        /\ \E u \in db.users : u.username = req[s].username /\ u.email # req[s].email

----------------------------------------------------------------------------
(* Deleting a hotel that owns images, benefits and reviews *)

HotelPayloads ==
    {[hotel_code |-> 71, city |-> "pune", price |-> 100],
     [hotel_code |-> 72, city |-> "goa", price |-> 200]}

\* the child a service adds to hotel hid
OwnedData(t, hid) ==
    CASE t = "hotel_images" -> [hotel_id |-> hid, image_url |-> "img"]
      [] t = "hotel_benefits" -> [hotel_id |-> hid, benefit |-> "wifi"]
      [] t = "hotel_reviews" -> [hotel_id |-> hid, rating |-> 40]

OwnCreateHotel(s, data) ==
    /\ CanWrite(s)
    /\ NextId(View(s).hotels) <= MaxId
    /\ LET r == RepoCreate(View(s), "hotels", data, clock)
       IN  AfterCall(s, r, TRUE) /\ Called("create_hotel", s, Null, data, r)
    /\ UNCHANGED <<db, clock, pc, req, out, calls, wrote>>

\* a child is added to a hotel the session has just read
OwnCreateChild(s, t, hid) ==
    /\ CanWrite(s)
    /\ hid \in Ids(View(s).hotels)
    /\ NextId(View(s)[t]) <= MaxOwned
    /\ LET r == RepoCreate(View(s), t, OwnedData(t, hid), clock)
       IN  AfterCall(s, r, TRUE)
           /\ Called("create_child", s, hid, OwnedData(t, hid), r)
    /\ UNCHANGED <<db, clock, pc, req, out, calls, wrote>>

OwnDeleteHotel(s, id) ==
    /\ CanWrite(s)
    /\ LET r == RepoDelete(View(s), "hotels", id)
       IN  AfterCall(s, r, FALSE) /\ Called("delete_hotel", s, id, NoData, r)
    /\ UNCHANGED <<db, clock, pc, req, out, calls, wrote>>

\* await session.commit()
OwnCommit(s) ==
    /\ open[s]
    /\ db' = work[s]
    /\ open' = [open EXCEPT ![s] = FALSE]
    /\ work' = [work EXCEPT ![s] = EmptyStore]
    /\ last' = [NoCall EXCEPT !.op = "commit", !.sess = s]
    /\ UNCHANGED <<clock, pc, req, out, calls, wrote>>

NextOwned ==
    \/ \E s \in RepoSessions, d \in HotelPayloads : OwnCreateHotel(s, d)
    \/ \E s \in RepoSessions, t \in OwnedTables, i \in CallIds :
          OwnCreateChild(s, t, i)
    \/ \E s \in RepoSessions, i \in CallIds : OwnDeleteHotel(s, i)
    \/ \E s \in RepoSessions : OwnCommit(s)
    \/ \E s \in RepoSessions : CallRollback(s)

SpecOwned == InitRepo /\ [][NextOwned]_vars

\* the rows of the owned tables that name hotel id
OwnedBy(store, id) ==
    UNION {{r \in store[t] : r.hotel_id = id} : t \in OwnedTables}

\* C11: after Repository.delete has removed a hotel that owned images,
\* benefits or reviews, no row of an owned table names the deleted hotel's id
C11_DeleteCascades ==
    (last.op = "delete_hotel" /\ last.flag)
        => OwnedBy(View(last.sess), last.id) = {}

----------------------------------------------------------------------------
(* Listing and counting: Repository.list and Repository.count *)

Min(a, b) == IF a <= b THEN a ELSE b

\* select(model).where(col == value, ...): the statement a caller hands to
\* list and count, with the OFFSET and LIMIT clauses it carries (Null: none)
Select(t, where) == [t |-> t, where |-> where, offset |-> Null, limit |-> Null]

\* stmt.offset(n), stmt.limit(n): each replaces the clause the statement had
WithOffset(stmt, n) == [stmt EXCEPT !.offset = n]
WithLimit(stmt, n) == [stmt EXCEPT !.limit = n]

\* stmt = None
NoStmt == [none |-> TRUE]

\* the order the engine returns rows in: ORDER BY dir * col when col is
\* given, rows of equal key (and all rows otherwise) in primary-key order
RECURSIVE EngineOrder(_, _, _)
EngineOrder(rows, col, dir) ==
    IF rows = {} THEN <<>>
    ELSE LET key(r) == IF col = "none" THEN 0 ELSE dir * r[col]
             first == CHOOSE r \in rows : \A o \in rows :
                         \/ key(r) < key(o)
                         \/ key(r) = key(o) /\ r.id <= o.id
         IN  <<first>> \o EngineOrder(rows \ {first}, col, dir)

\* OFFSET and LIMIT applied to the ordered rows
Paginate(ordered, offset, limit) ==
    LET rest == SubSeq(ordered, (IF offset = Null THEN 0 ELSE offset) + 1,
                       Len(ordered))
    IN  IF limit = Null THEN rest ELSE SubSeq(rest, 1, Min(limit, Len(rest)))

\* the rows a statement yields
Execute(view, stmt) ==
    Paginate(EngineOrder(SelectBy(view[stmt.t], stmt.where), "none", 1),
             stmt.offset, stmt.limit)

\* list: stmt defaults to select(model); stmt.offset(skip).limit(limit)
RepoList(view, t, stmt, skip, limit) ==
    Execute(view, WithLimit(WithOffset(IF stmt = NoStmt THEN Select(t, NoData)
                                       ELSE stmt, skip), limit))

RepoCount_Table(view, t, stmt) == Cardinality(view[t])

\* count: select(func.count()).select_from(stmt.subquery()), the statement
\* wrapped as it was given
RepoCount(view, t, stmt) ==
    Len(Execute(view, IF stmt = NoStmt THEN Select(t, NoData) ELSE stmt))

\* largest skip and limit of a statement or a list call
MaxSkip == 1

PlainStatements ==
    {NoStmt, Select("users", NoData), Select("users", [is_active |-> TRUE]),
     Select("users", [is_active |-> FALSE])}

\* statements that already carry pagination clauses
PagedStatements ==
    {WithLimit(Select("users", NoData), 1),
     WithLimit(WithOffset(Select("users", [is_active |-> TRUE]), 1), 1)}

Limits == {Null} \cup (1 .. MaxSkip)

QueryCount(s, stmt) ==
    /\ Called("count", s, Null, stmt,
              Result(View(s), RepoCount(View(s), "users", stmt), FALSE, "none"))
    /\ UNCHANGED <<db, open, work, clock, pc, req, out, calls, wrote>>

QueryList(s, stmt, skip, limit) ==
    /\ Called("list", s, Null, [stmt |-> stmt, skip |-> skip, limit |-> limit],
              Result(View(s), RepoList(View(s), "users", stmt, skip, limit),
                     FALSE, "none"))
    /\ UNCHANGED <<db, open, work, clock, pc, req, out, calls, wrote>>

NextQuery ==
    \/ \E s \in RepoSessions, d \in UserPayloads : CallCreate(s, d)
    \/ \E s \in RepoSessions, i \in CallIds : CallDelete(s, i)
    \/ \E s \in RepoSessions, q \in PlainStatements \cup PagedStatements :
          QueryCount(s, q)
    \/ \E s \in RepoSessions, q \in PlainStatements \cup PagedStatements,
          k \in 0 .. MaxSkip, l \in Limits : QueryList(s, q, k, l)

SpecQuery == InitRepo /\ [][NextQuery]_vars

\* the users a statement's predicate selects, whatever clauses it carries
Satisfying(view, stmt) ==
    IF stmt = NoStmt THEN view.users ELSE SelectBy(view.users, stmt.where)

Range(seq) == {seq[i] : i \in DOMAIN seq}

\* C12: for a predicate statement (or none), count equals the number of
\* entities list returns for the same statement with skip 0 and no limit,
\* and that list holds each entity satisfying the predicate exactly once
C12_CountIsListLength ==
    (last.op = "count" /\ last.data \in PlainStatements)
        => LET all == RepoList(View(last.sess), "users", last.data, 0, Null)
           IN  /\ last.ret = Len(all)
               /\ Range(all) = Satisfying(View(last.sess), last.data)
               /\ Cardinality(Range(all)) = Len(all)

\* a count under a predicate that keeps some users and drops others
C12_Witness ==
    /\ last.op = "count" /\ last.data \in PlainStatements
    /\ last.ret >= 1
    /\ last.ret < Cardinality(View(last.sess).users)

\* C13: for a statement that already carries skip/limit clauses, count
\* returns the number of all rows satisfying its predicate
C13_CountIgnoresPagination ==
    (last.op = "count" /\ last.data \in PagedStatements)
        => last.ret = Cardinality(Satisfying(View(last.sess), last.data))

----------------------------------------------------------------------------
(* The hotel listing: HotelRepository.list_hotels_with_filters and
   hotel_service.list_hotels.  Hotel.ratings and the star targets are held in
   tenths of a star, prices in whole units *)

\* the 0.5 of func.abs(Hotel.ratings - rating) <= 0.5, in tenths
RatingTolerance == 5
\* price_filter.get("start", 0), price_filter.get("end", 100000)
PriceStartDefault == 0
PriceEndDefault == 100000

\* largest page number requested
MaxPage == 3
PageSizes == {1, 2, 6}

Abs(x) == IF x < 0 THEN 0 - x ELSE x

\* str.lower() and SQL lower() on the city names in use
Lower(str) ==
    CASE str \in {"Pune", "PUNE", "pune"} -> "pune"
      [] str \in {"Goa", "GOA", "goa"} -> "goa"
      [] OTHER -> str

\* float(r) of a star-rating filter value, in tenths
FloatStars(str) ==
    CASE str = "5" -> 50
      [] str = "4" -> 40
      [] str = "3" -> 30

\* float(v) of a price bound
FloatPrice(str) ==
    CASE str = "60" -> 60
      [] str = "100" -> 100
      [] str = "200" -> 200

\* an argument that is passed and is not None
Given(args, k) == k \in DOMAIN args

\* the where clauses list_hotels_with_filters adds for its arguments
CityClause_Exact(h, args) ==
    (Given(args, "city") /\ args.city # "") => h.city = args.city

CityClause(h, args) ==
    (Given(args, "city") /\ args.city # "")
        => Lower(h.city) = Lower(args.city)

StarClause_Strict(h, args) ==
    (Given(args, "star_ratings") /\ args.star_ratings # <<>>)
        => /\ h.ratings # Null
           /\ \E i \in DOMAIN args.star_ratings :
                 Abs(h.ratings - args.star_ratings[i]) < RatingTolerance

StarClause(h, args) ==
    (Given(args, "star_ratings") /\ args.star_ratings # <<>>)
        => /\ h.ratings # Null
           /\ \E i \in DOMAIN args.star_ratings :
                 Abs(h.ratings - args.star_ratings[i]) <= RatingTolerance

PriceClauses(h, args) ==
    /\ Given(args, "price_min") => h.price >= args.price_min
    /\ Given(args, "price_max") => h.price <= args.price_max

Filtered(view, args) ==
    {h \in view.hotels :
        CityClause(h, args) /\ StarClause(h, args) /\ PriceClauses(h, args)}

\* the order_by the sort directive adds: <<column, direction>>
OrderOf(args) ==
    IF ~Given(args, "sort_by") THEN <<"none", 1>>
    ELSE CASE args.sort_by = "priceLowToHigh" -> <<"price", 1>>
           [] args.sort_by = "priceHighToLow" -> <<"price", 0 - 1>>
           [] OTHER -> <<"none", 1>>

\* the statement before pagination, as the rows it yields in order
Ordered(view, args) ==
    EngineOrder(Filtered(view, args), OrderOf(args)[1], OrderOf(args)[2])

\* count_stmt: select(func.count()).select_from(stmt.subquery())
CountQuery(view, args) == Len(Ordered(view, args))

\* stmt.offset(skip).limit(limit)
PageQuery_SliceFirst(view, args) ==
    LET o == OrderOf(args)
        slice == Paginate(EngineOrder(Filtered(view, args), "none", 1),
                          args.skip, args.limit)
    IN  EngineOrder(Range(slice), o[1], o[2])

PageQuery_NoOffset(view, args) == Paginate(Ordered(view, args), 0, args.limit)

PageQuery(view, args) == Paginate(Ordered(view, args), args.skip, args.limit)

\* list_hotels: the arguments it derives from the request
SortDirective(advanced) ==
    LET with == {i \in DOMAIN advanced : "sortBy" \in DOMAIN advanced[i]}
    IN  IF with = {} THEN ""
        ELSE advanced[CHOOSE i \in with : \A j \in with : i <= j].sortBy

ListArgs(filters, advanced, page, page_size) ==
    LET city == IF "city" \in DOMAIN filters THEN filters.city ELSE ""
        stars == "star_ratings" \in DOMAIN filters
                    /\ filters.star_ratings # <<>>
        priced == "priceFilter" \in DOMAIN filters
                    /\ filters.priceFilter # NoData
        pf == filters.priceFilter
        sort == SortDirective(advanced)
        keys == {"skip", "limit"}
                  \cup (IF city # "" THEN {"city"} ELSE {})
                  \cup (IF stars THEN {"star_ratings"} ELSE {})
                  \cup (IF priced THEN {"price_min", "price_max"} ELSE {})
                  \cup (IF sort # "" THEN {"sort_by"} ELSE {})
    IN  [k \in keys |->
            CASE k = "skip" -> (page - 1) * page_size
              [] k = "limit" -> page_size
              [] k = "city" -> city
              [] k = "star_ratings" ->
                   [i \in DOMAIN filters.star_ratings |->
                       FloatStars(filters.star_ratings[i])]
              [] k = "price_min" ->
                   IF "start" \in DOMAIN pf THEN FloatPrice(pf.start)
                   ELSE PriceStartDefault
              [] k = "price_max" ->
                   IF "end" \in DOMAIN pf THEN FloatPrice(pf.end)
                   ELSE PriceEndDefault
              [] k = "sort_by" -> sort]

TotalPages_Floor(total, page_size) ==
    IF total > 0 THEN total \div page_size ELSE 1

\* math.ceil(total / page_size) if total > 0 else 1
TotalPages(total, page_size) ==
    IF total > 0
    THEN IF total % page_size = 0 THEN total \div page_size
         ELSE total \div page_size + 1
    ELSE 1

\* list_hotels: the metadata dict
Metadata(page, page_size, total) ==
    [currentPage |-> page, totalPages |-> TotalPages(total, page_size),
     pageSize |-> page_size, totalResults |-> total]

\* get_hotel_reviews: the pagination dict
Pagination(page, page_size, total) ==
    [currentPage |-> page, totalPages |-> TotalPages(total, page_size),
     pageSize |-> page_size]

\* HotelRepository.get_hotel_reviews: the count and the page of a hotel's
\* reviews, newest first
ReviewsOf(view, hotel_id) == {r \in view.hotel_reviews : r.hotel_id = hotel_id}

ReviewCount(view, args) == Cardinality(ReviewsOf(view, args.hotel_id))

ReviewPage(view, args) ==
    Paginate(EngineOrder(ReviewsOf(view, args.hotel_id), "created_at", 0 - 1),
             args.skip, args.limit)

\* get_hotel_reviews: skip = (page - 1) * page_size, limit = page_size
ReviewArgs(hotel_id, page, page_size) ==
    [hotel_id |-> hotel_id, skip |-> (page - 1) * page_size,
     limit |-> page_size]

\* HotelReviewRepository.get_review_stats.  An average is the pair of a sum
\* and a count, in tenths; SQL NULL is the pair with count 0
RECURSIVE SumRating(_)
SumRating(rows) ==
    IF rows = {} THEN 0
    ELSE LET r == CHOOSE x \in rows : TRUE
         IN  r.rating + SumRating(rows \ {r})

SqlAvg(rows) == [num |-> SumRating(rows), den |-> Cardinality(rows)]

Zero == [num |-> 0, den |-> 1]

\* avg_rating or 0: None and 0.0 both give 0
OrZero(avg) == IF avg.den = 0 \/ avg.num = 0 THEN Zero ELSE avg

Floor_Round(rating) == (rating + 5) \div 10

\* func.floor(HotelReview.rating)
Floor(rating) == rating \div 10

Stars == 1 .. 5

GetReviewStats(view, hotel_id) ==
    LET rows == ReviewsOf(view, hotel_id)
    IN  [avg_rating |-> OrZero(SqlAvg(rows)),
         total_reviews |-> Cardinality(rows),
         star_counts |->
             [i \in Stars |->
                 Cardinality({r \in rows : Floor(r.rating) = i})]]

\* a stored hotel
HotelRow(id, city, price, ratings) ==
    NewRow("hotels", {},
           [id |-> id, hotel_code |-> 70 + id, city |-> city, price |-> price,
            ratings |-> ratings], 0)

Catalogue ==
    {HotelRow(1, "pune", 100, 46), HotelRow(2, "Pune", 200, 40),
     HotelRow(3, "goa", 150000, 45), HotelRow(4, "Pune", 50, Null)}

\* ten hotels in Pune and five elsewhere
TenAndFive ==
    {HotelRow(i, IF i % 3 = 0 THEN "Goa" ELSE "Pune",
              50 * ((i % 4) + 1), 40) : i \in 1 .. 15}

HotelStores ==
    {[EmptyStore EXCEPT !.hotels = hs] :
        hs \in SUBSET Catalogue \cup {TenAndFive}}

CityFilters == {NoData, [city |-> "pune"], [city |-> "GOA"]}

StarFilters ==
    {NoData, [star_ratings |-> <<"5", "3">>], [star_ratings |-> <<>>]}

PriceFilters ==
    {NoData, [priceFilter |-> NoData], [priceFilter |-> [start |-> "100"]],
     [priceFilter |-> [end |-> "100"]],
     [priceFilter |-> [start |-> "60", end |-> "200"]]}

AdvancedFilters ==
    {<<>>, <<[sortBy |-> "priceLowToHigh"]>>,
     <<[other |-> "x"], [sortBy |-> "priceHighToLow"],
       [sortBy |-> "priceLowToHigh"]>>,
     <<[sortBy |-> "rating"], [sortBy |-> "priceLowToHigh"]>>}

\* arguments of direct calls of list_hotels_with_filters
DirectArgs ==
    {[skip |-> 0, limit |-> 2, price_min |-> 100],
     [skip |-> 1, limit |-> 1, price_max |-> 100,
      sort_by |-> "priceHighToLow"],
     [skip |-> 0, limit |-> 6, city |-> "Goa", price_min |-> 60,
      star_ratings |-> <<40>>],
     [skip |-> 2, limit |-> 2, city |-> "", star_ratings |-> <<>>,
      sort_by |-> "priceLowToHigh"]}

ListRequests ==
    {[kind |-> "list_hotels", filters |-> c @@ st @@ pf, advanced |-> adv,
      page |-> p, page_size |-> z,
      args |-> ListArgs(c @@ st @@ pf, adv, p, z)] :
        c \in CityFilters, st \in StarFilters, pf \in PriceFilters,
        adv \in AdvancedFilters, p \in 1 .. MaxPage, z \in PageSizes}
    \cup {[kind |-> "list_hotels_with_filters", args |-> a] : a \in DirectArgs}

\* a caller asks for a listing
ListBegin(s, r) ==
    /\ pc[s].at = "idle"
    /\ req' = [req EXCEPT ![s] = r]
    /\ pc' = [pc EXCEPT ![s] = At("count", 0, 0, Null, "none")]
    /\ UNCHANGED <<db, open, work, clock, last, out, calls, wrote>>

\* total = await session.scalar(count_stmt)
ListCount(s) ==
    /\ pc[s].at = "count"
    /\ LET total == IF req[s].kind = "get_hotel_reviews"
                    THEN ReviewCount(View(s), req[s].args)
                    ELSE CountQuery(View(s), req[s].args)
       IN  pc' = [pc EXCEPT ![s] = At("page", total, 0, Null, "none")]
    /\ UNCHANGED <<db, open, work, clock, last, req, out, calls, wrote>>

\* result = await session.execute(stmt); return list(rows), total; and, in
\* list_hotels and get_hotel_reviews, the metadata built from total (in
\* get_hotel_reviews after the statistics, read from the same store)
ListPage(s) ==
    /\ pc[s].at = "page"
    /\ last' = [op |-> req[s].kind, sess |-> s, request |-> req[s],
                args |-> req[s].args,
                items |-> IF req[s].kind = "get_hotel_reviews"
                          THEN ReviewPage(View(s), req[s].args)
                          ELSE PageQuery(View(s), req[s].args),
                total |-> pc[s].i,
                stats |-> IF req[s].kind = "get_hotel_reviews"
                          THEN GetReviewStats(View(s), req[s].args.hotel_id)
                          ELSE NoData,
                metadata |->
                    CASE req[s].kind = "list_hotels" ->
                           Metadata(req[s].page, req[s].page_size, pc[s].i)
                      [] req[s].kind = "get_hotel_reviews" ->
                           Pagination(req[s].page, req[s].page_size, pc[s].i)
                      [] OTHER -> NoData,
                before |-> View(s)]
    /\ pc' = [pc EXCEPT ![s] = At("done", 0, 0, Null, "none")]
    /\ UNCHANGED <<db, open, work, clock, req, out, calls, wrote>>

InitList ==
    /\ db \in HotelStores
    /\ open = [s \in Sessions |-> FALSE]
    /\ work = [s \in Sessions |-> EmptyStore]
    /\ clock = 0
    /\ last = NoCall
    /\ NoRequest

NextList ==
    \/ \E s \in RepoSessions, r \in ListRequests : ListBegin(s, r)
    \/ \E s \in RepoSessions : ListCount(s)
    \/ \E s \in RepoSessions : ListPage(s)

SpecList == InitList /\ [][NextList]_vars

\* a listing has been answered
Listed == last.op \in {"list_hotels", "list_hotels_with_filters"}

\* the hotels of the store the listing ran on that satisfy every predicate
\* supplied to list_hotels_with_filters
Supplied(a, k) ==
    /\ k \in DOMAIN a
    /\ k = "city" => a[k] # ""
    /\ k = "star_ratings" => a[k] # <<>>

Matching(a) ==
    {h \in last.before.hotels :
        /\ Supplied(a, "city") => Lower(h.city) = Lower(a.city)
        /\ Supplied(a, "star_ratings")
              => /\ h.ratings # Null
                 /\ \E i \in DOMAIN a.star_ratings :
                       /\ h.ratings - a.star_ratings[i] <= RatingTolerance
                       /\ a.star_ratings[i] - h.ratings <= RatingTolerance
        /\ Supplied(a, "price_min") => h.price >= a.price_min
        /\ Supplied(a, "price_max") => h.price <= a.price_max}

\* C14: the total returned by list_hotels_with_filters is the number of stored
\* hotels satisfying the conjunction of the supplied predicates (city compared
\* case-insensitively, none supplied meaning all hotels), whatever sort_by,
\* skip and limit are
C14_TotalCountsMatches ==
    Listed => last.total = Cardinality(Matching(last.args))

\* a total under a city filter written in another case than the stored
\* city, keeping some hotels and dropping others, on a page past the matches
C14_Witness ==
    /\ Listed
    /\ Supplied(last.args, "city")
    /\ \E h \in Matching(last.args) : h.city # last.args.city
    /\ last.total >= 1
    /\ last.total < Cardinality(last.before.hotels)
    /\ last.args.skip >= last.total
    /\ Supplied(last.args, "sort_by")

\* the arguments without argument k
Without(a, k) == [x \in DOMAIN a \ {k} |-> a[x]]

Items == Range(last.items)

\* hotel h is rated within half a star of one of the targets
Near(h, targets) ==
    /\ h.ratings # Null
    /\ \E i \in DOMAIN targets :
          /\ h.ratings - targets[i] <= RatingTolerance
          /\ targets[i] - h.ratings <= RatingTolerance

\* C16: when target star ratings are given, a hotel passing the other filters
\* is kept if and only if some target t has |rating - t| <= 0.5, the bound
\* included; a hotel with no rating is never kept
C16_StarTolerance ==
    (Listed /\ Supplied(last.args, "star_ratings"))
        => LET others == Matching(Without(last.args, "star_ratings"))
               kept == {h \in others : Near(h, last.args.star_ratings)}
           IN  /\ last.total = Cardinality(kept)
               /\ Items \subseteq kept
               /\ \A h \in Items : h.ratings # Null

\* targets 5.0 and 3.0 over hotels rated 4.6, 4.5, 4.0 and unrated: the
\* first two are returned, the other two are not
C16_Witness ==
    /\ last.op = "list_hotels"
    /\ Supplied(last.args, "star_ratings")
    /\ last.args.star_ratings = <<50, 30>>
    /\ {h.ratings : h \in Matching(Without(last.args, "star_ratings"))}
          = {46, 45, 40, Null}
    /\ {h.ratings : h \in Items} = {46, 45}
    /\ last.total = 2

\* the bounds the caller wrote in the price filter of the request
PriceFilterOf(r) ==
    IF "priceFilter" \in DOMAIN r.filters THEN r.filters.priceFilter
    ELSE NoData

\* C17: in a listing requested through list_hotels a hotel passing the other
\* filters is kept iff its price is >= the lower bound, when one is given,
\* and <= the upper bound, when one is given; a bound left out of the price
\* filter restricts nothing on its side
C17_OmittedBoundUnbounded ==
    last.op = "list_hotels"
        => LET pf == PriceFilterOf(last.request)
               others == Matching(Without(Without(last.args, "price_min"),
                                          "price_max"))
               kept == {h \in others :
                          /\ "start" \in DOMAIN pf
                                => h.price >= FloatPrice(pf.start)
                          /\ "end" \in DOMAIN pf
                                => h.price <= FloatPrice(pf.end)}
           IN  last.total = Cardinality(kept)

\* C18: list_hotels with page p and page_size s skips (p-1)*s hotels of those
\* passing the filters and returns min(s, max(0, total - (p-1)*s)) distinct
\* hotels, each passing the filters
C18_PageLength ==
    last.op = "list_hotels"
        => LET p == last.request.page
               z == last.request.page_size
               left == last.total - (p - 1) * z
           IN  /\ last.args.skip = (p - 1) * z
               /\ last.args.limit = z
               /\ Len(last.items) = Min(z, IF left > 0 THEN left ELSE 0)
               /\ Cardinality(Items) = Len(last.items)
               /\ Items \subseteq Matching(last.args)

\* city = pune, page 1, page_size 6 over ten Pune hotels and five others:
\* six items, total 10, totalPages 2
C18_Witness ==
    /\ last.op = "list_hotels"
    /\ last.before.hotels = TenAndFive
    /\ last.request.filters = [city |-> "pune"]
    /\ last.request.page = 1 /\ last.request.page_size = 6
    /\ Len(last.items) = 6
    /\ last.total = 10
    /\ last.metadata.totalPages = 2

\* the sort directive of the request: the first sortBy entry of the advanced
\* filters
FirstSortBy(advanced) ==
    IF \E i \in DOMAIN advanced : "sortBy" \in DOMAIN advanced[i]
    THEN LET i == CHOOSE k \in DOMAIN advanced :
                     /\ "sortBy" \in DOMAIN advanced[k]
                     /\ \A j \in 1 .. k - 1 : "sortBy" \notin DOMAIN advanced[j]
         IN  advanced[i].sortBy
    ELSE "none"

\* +1 for priceLowToHigh, -1 for priceHighToLow, 0 for anything else
Direction(directive) ==
    CASE directive = "priceLowToHigh" -> 1
      [] directive = "priceHighToLow" -> 0 - 1
      [] OTHER -> 0

\* the page that follows the one returned, on the same store
NextPage ==
    PageQuery(last.before, [last.args EXCEPT !.skip = @ + last.args.limit])

----------------------------------------------------------------------------
(* Reviews of a hotel: get_hotel_reviews and get_review_stats *)

ReviewRow(id, hotel_id, rating, at) ==
    NewRow("hotel_reviews", {},
           [id |-> id, hotel_id |-> hotel_id, rating |-> rating,
            created_at |-> at], 0)

ReviewCatalogue ==
    {ReviewRow(1, 1, 45, 0), ReviewRow(2, 1, 50, 1), ReviewRow(3, 1, 10, 0),
     ReviewRow(4, 2, 39, 1), ReviewRow(5, 2, 5, 0)}

ReviewStores ==
    {EmptyStore}
    \cup {[EmptyStore EXCEPT
             !.hotels = {HotelRow(1, "pune", 100, 46),
                         HotelRow(2, "Pune", 200, 40)},
             !.hotel_reviews = rs] : rs \in SUBSET ReviewCatalogue}

ReviewPageSizes == {1, 2, 5}

ReviewRequests ==
    {[kind |-> "get_hotel_reviews", page |-> p, page_size |-> z,
      args |-> ReviewArgs(h, p, z)] :
        h \in 1 .. 2, p \in 1 .. MaxPage, z \in ReviewPageSizes}
    \cup {[kind |-> "list_hotels", filters |-> NoData, advanced |-> <<>>,
           page |-> p, page_size |-> z, args |-> ListArgs(NoData, <<>>, p, z)] :
             p \in 1 .. MaxPage, z \in PageSizes}

\* a direct call of get_review_stats; its six SELECTs read one store, which
\* no other session writes meanwhile
StatsCall(s, hotel_id) ==
    /\ pc[s].at = "idle"
    /\ last' = [op |-> "get_review_stats", sess |-> s,
                args |-> [hotel_id |-> hotel_id],
                stats |-> GetReviewStats(View(s), hotel_id),
                before |-> View(s)]
    /\ pc' = [pc EXCEPT ![s] = At("done", 0, 0, Null, "none")]
    /\ UNCHANGED <<db, open, work, clock, req, out, calls, wrote>>

InitReviews ==
    /\ db \in ReviewStores
    /\ open = [s \in Sessions |-> FALSE]
    /\ work = [s \in Sessions |-> EmptyStore]
    /\ clock = 0
    /\ last = NoCall
    /\ NoRequest

NextReviews ==
    \/ \E s \in RepoSessions, r \in ReviewRequests : ListBegin(s, r)
    \/ \E s \in RepoSessions : ListCount(s)
    \/ \E s \in RepoSessions : ListPage(s)
    \/ \E s \in RepoSessions, h \in 1 .. MaxId : StatsCall(s, h)

SpecReviews == InitReviews /\ [][NextReviews]_vars

\* C15: the pagination metadata of list_hotels and get_hotel_reviews reports
\* totalPages = ceil(total / page_size) when total > 0, that is the least
\* number of pages of page_size items that hold total items, and 1 when
\* total = 0; totalPages is never 0
C15_TotalPages ==
    last.op \in {"list_hotels", "get_hotel_reviews"}
        => LET pages == last.metadata.totalPages
               size == last.metadata.pageSize
           IN  /\ pages >= 1
               /\ last.total = 0 => pages = 1
               /\ last.total > 0
                     => /\ pages * size >= last.total
                        /\ (pages - 1) * size < last.total

\* three reviews in pages of two: the quotient is not whole
C15_Witness ==
    /\ last.op = "get_hotel_reviews"
    /\ last.total = 3
    /\ last.metadata.pageSize = 2
    /\ last.metadata.totalPages = 2

\* the reviews of the hotel the statistics were asked for
Own == {r \in last.before.hotel_reviews : r.hotel_id = last.args.hotel_id}

\* C20: get_review_stats(hotel_id) returns the number of that hotel's
\* reviews, their arithmetic mean (exactly 0, not null, when there are none)
\* and five buckets 1..5, bucket i counting the reviews with
\* i <= rating < i + 1; for ratings within [1,5] the buckets sum to the
\* review count; reviews of other hotels never contribute
C20_ReviewStats ==
    last.op = "get_review_stats"
        => LET st == last.stats
               n == Cardinality(Own)
           IN  /\ st.total_reviews = n
               /\ st.avg_rating.den # 0
               /\ n = 0 => st.avg_rating.num = 0
               /\ st.avg_rating.num * n = SumRating(Own) * st.avg_rating.den
               /\ DOMAIN st.star_counts = 1 .. 5
               /\ \A i \in 1 .. 5 :
                     st.star_counts[i]
                        = Cardinality({r \in Own : /\ 10 * i <= r.rating
                                                   /\ r.rating < 10 * (i + 1)})
               /\ (\A r \in Own : 10 <= r.rating /\ r.rating <= 50)
                     => st.star_counts[1] + st.star_counts[2]
                          + st.star_counts[3] + st.star_counts[4]
                          + st.star_counts[5] = n

\* statistics of a hotel with reviews rated 4.5, 5.0 and 1.0 while another
\* hotel has reviews too
C20_Witness ==
    /\ last.op = "get_review_stats"
    /\ {r.rating : r \in Own} = {45, 50, 10}
    /\ last.before.hotel_reviews # Own
    /\ last.stats.star_counts = [i \in 1 .. 5 |->
                                    IF i \in {1, 4, 5} THEN 1 ELSE 0]
    /\ last.stats.avg_rating = [num |-> 105, den |-> 3]

----------------------------------------------------------------------------
(* update_user and delete_user: booking_users/services/user_service.py *)

\* UserUpdate(**given): the fields the caller supplied, and is_active, which
\* UserBase declares as Optional[bool] = True
UserUpdate(given) ==
    IF "is_active" \in DOMAIN given THEN given
    ELSE given @@ [is_active |-> TRUE]

\* a request's locals: the user read first, the update being built, the
\* result of the delete
Locals == [existing |-> NoData, update_data |-> NoData, result |-> "none"]

\* a check that raises only once the scope has been entered
RaiseBefore_InScope(s, e) == RaiseInBody(s, e)

\* where a request leaves without having entered a scope
RaiseBefore(s, e) ==
    /\ pc' = [pc EXCEPT ![s] = [@ EXCEPT !.at = "close", !.err = e]]
    /\ out' = [out EXCEPT ![s] = [@ EXCEPT !.raised = e]]

\* existing_user = await user_repository.get(session, user_id)
UpdGet(s) ==
    /\ pc[s].at = "upd_get"
    /\ LET r == RepoGet(View(s), "users", req[s].user_id)
       IN  IF r.ret = {}
           THEN RaiseBefore(s, "NotFoundError") /\ req' = req
           ELSE /\ req' = [req EXCEPT ![s].existing = CHOOSE u \in r.ret : TRUE]
                /\ pc' = [pc EXCEPT ![s] = [@ EXCEPT !.at = "upd_email"]]
                /\ out' = out
    /\ Log(s, "execute")
    /\ UNCHANGED <<db, open, work, clock, last, wrote>>

\* if user_data.email and user_data.email != existing_user.email:
\*     email_user = await user_repository.get_by_email(...)
UpdCheckEmail(s) ==
    /\ pc[s].at = "upd_email"
    /\ LET ud == req[s].user_data
       IN  IF "email" \in DOMAIN ud /\ ud.email # req[s].existing.email
           THEN LET r == RepoGetBy(View(s), "users", [email |-> ud.email])
                IN  /\ IF \E u \in r.ret : u.id # req[s].user_id
                       THEN RaiseBefore(s, "ConflictError") /\ req' = req
                       ELSE /\ req' = [req EXCEPT ![s].update_data =
                                          @ @@ [email |-> ud.email]]
                            /\ pc' = [pc EXCEPT
                                        ![s] = [@ EXCEPT !.at = "upd_username"]]
                            /\ out' = out
                    /\ Log(s, "execute")
           ELSE /\ pc' = [pc EXCEPT ![s] = [@ EXCEPT !.at = "upd_username"]]
                /\ UNCHANGED <<req, out, calls>>
    /\ UNCHANGED <<db, open, work, clock, last, wrote>>

\* the password and is_active entries of update_data
Rest(ud) ==
    (IF "password" \in DOMAIN ud
     THEN [hashed_password |-> PasswordHash(ud.password)] ELSE NoData)
    @@ (IF "is_active" \in DOMAIN ud
        THEN [is_active |-> ud.is_active] ELSE NoData)

\* the username check, then the password and is_active entries; with nothing
\* to update the existing user is returned
UpdCheckUsername(s) ==
    /\ pc[s].at = "upd_username"
    /\ LET ud == req[s].user_data
           asked == "username" \in DOMAIN ud
                      /\ ud.username # req[s].existing.username
           r == RepoGetBy(View(s), "users", [username |-> ud.username])
           data == req[s].update_data
                     @@ (IF asked THEN [username |-> ud.username] ELSE NoData)
                     @@ Rest(ud)
       IN  /\ IF asked /\ \E u \in r.ret : u.id # req[s].user_id
              THEN RaiseBefore(s, "ConflictError") /\ req' = req
              ELSE /\ req' = [req EXCEPT ![s].update_data = data]
                   /\ pc' = [pc EXCEPT ![s] =
                               [@ EXCEPT !.at = IF data = NoData THEN "close"
                                                ELSE "upd_update"]]
                   /\ out' = [out EXCEPT ![s] =
                                [@ EXCEPT !.returned = (data = NoData)]]
           /\ IF asked THEN Log(s, "execute") ELSE calls' = calls
    /\ UNCHANGED <<db, open, work, clock, last, wrote>>

\* async with transaction(session):
\*     updated_user = await user_repository.update(session, user_id, update_data)
\*     if not updated_user: raise NotFoundError
UpdUpdate(s) ==
    /\ pc[s].at = "upd_update"
    /\ CanWrite(s)
    /\ LET r == RepoUpdate(View(s), "users", req[s].user_id,
                           req[s].update_data, clock)
       IN  /\ AfterCall(s, r, FALSE)
           /\ Called("update_user", s, req[s].user_id, req[s].update_data, r)
           /\ IF r.raised # "none" THEN RaiseInBody(s, r.raised)
              ELSE IF r.ret = {} THEN RaiseInBody(s, "NotFoundError")
              ELSE /\ pc' = [pc EXCEPT ![s] = [@ EXCEPT !.at = OnNormalExit]]
                   /\ out' = out
    /\ Log(s, "update")
    /\ UNCHANGED <<db, clock, req, wrote>>

\* existing_user = await user_repository.get(session, user_id)
DelGet(s) ==
    /\ pc[s].at = "del_get"
    /\ IF RepoGet(View(s), "users", req[s].user_id).ret = {}
       THEN RaiseBefore(s, "NotFoundError")
       ELSE /\ pc' = [pc EXCEPT ![s] = [@ EXCEPT !.at = "del_delete"]]
            /\ out' = out
    /\ Log(s, "execute")
    /\ UNCHANGED <<db, open, work, clock, last, req, wrote>>

\* async with transaction(session):
\*     result = await user_repository.delete(session, user_id)
DelDelete(s) ==
    /\ pc[s].at = "del_delete"
    /\ CanWrite(s)
    /\ LET r == RepoDelete(View(s), "users", req[s].user_id)
       IN  /\ AfterCall(s, r, FALSE)
           /\ Called("delete_user", s, req[s].user_id, NoData, r)
           /\ req' = [req EXCEPT ![s].result =
                         IF r.flag THEN "True" ELSE "False"]
    /\ pc' = [pc EXCEPT ![s] = [@ EXCEPT !.at = OnNormalExit]]
    /\ Log(s, "delete")
    /\ UNCHANGED <<db, clock, out, wrote>>

\* what the caller supplies to UserUpdate
UpdateGiven ==
    {NoData, [email |-> "b@x"], [email |-> "c@x"], [username |-> "bob"],
     [is_active |-> FALSE], [email |-> "c@x", password |-> "pw2"]}

UserIds == 1 .. 2

UserRequests ==
    {[kind |-> "update", user_id |-> i, given |-> g,
      user_data |-> UserUpdate(g)] @@ Locals : i \in UserIds, g \in UpdateGiven}
    \cup {[kind |-> "delete", user_id |-> i] @@ Locals : i \in UserIds}
    \cup {r \in RegRequests : r.email = "b@x"}

StartOf(r) ==
    CASE r.kind = "update" -> "upd_get"
      [] r.kind = "delete" -> "del_get"
      [] r.kind = "register" -> "reg_email"

\* the users stored before the requests arrive: ann, active, and with her
\* or without bob, who has been deactivated
Ann ==
    NewRow("users", {},
           [id |-> 1, email |-> "a@x", username |-> "ann",
            hashed_password |-> PasswordHash("pw"), is_active |-> TRUE], 0)

Bob ==
    NewRow("users", {},
           [id |-> 2, email |-> "b@x", username |-> "bob",
            hashed_password |-> PasswordHash("pw"), is_active |-> FALSE], 0)

InitUsers ==
    /\ db \in {[EmptyStore EXCEPT !.users = u] : u \in {{Ann}, {Ann, Bob}}}
    /\ open = [s \in Sessions |-> FALSE]
    /\ work = [s \in Sessions |-> EmptyStore]
    /\ clock = 0
    /\ last = NoCall
    /\ req \in [Sessions -> UserRequests]
    /\ pc = [s \in Sessions |-> At(StartOf(req[s]), 0, 0, Null, "none")]
    /\ out = [s \in Sessions |-> NoOutcome]
    /\ calls = [s \in Sessions |-> <<>>]
    /\ wrote = [s \in Sessions |-> {}]

NextUsers ==
    \/ \E s \in Sessions : UpdGet(s)
    \/ \E s \in Sessions : UpdCheckEmail(s)
    \/ \E s \in Sessions : UpdCheckUsername(s)
    \/ \E s \in Sessions : UpdUpdate(s)
    \/ \E s \in Sessions : DelGet(s)
    \/ \E s \in Sessions : DelDelete(s)
    \/ \E s \in Sessions : RegCheckEmail(s)
    \/ \E s \in Sessions : RegCheckUsername(s)
    \/ \E s \in Sessions : RegCreate(s)
    \/ \E s \in Sessions : TxCommit(s)
    \/ \E s \in Sessions : TxRollback(s)
    \/ \E s \in Sessions : SessionClose(s)

SpecUsers == InitUsers /\ [][NextUsers]_vars

----------------------------------------------------------------------------
(* Properties of update_user and delete_user *)

\* the update of s asks for an email (else a username) that a different
\* committed user has, and is about to check it
TakenByOther(s) ==
    /\ req[s].kind = "update"
    /\ \/ /\ pc[s].at = "upd_email"
          /\ "email" \in DOMAIN req[s].user_data
          /\ \E u \in db.users : /\ u.email = req[s].user_data.email
                                 /\ u.id # req[s].user_id
       \/ /\ pc[s].at = "upd_username"
          /\ "username" \in DOMAIN req[s].user_data
          /\ \E u \in db.users : /\ u.username = req[s].user_data.username
                                 /\ u.id # req[s].user_id

ScopeCalls == {"flush", "update", "delete", "commit", "rollback"}

\* C21: asked to set an email (or username) that a different stored user
\* has, update_user raises ConflictError before any transaction scope is
\* entered: the step changes no stored user, and the call issues no write,
\* commit or rollback
C21_UpdateConflict ==
    /\ [][\A s \in Sessions :
            (TakenByOther(s) /\ pc'[s] # pc[s]) =>
                /\ out'[s].raised = "ConflictError"
                /\ pc'[s].at = "close"
                /\ db' = db
                /\ ~open'[s]]_vars
    /\ [](\A s \in Sessions :
            (req[s].kind = "update" /\ out[s].raised = "ConflictError") =>
                /\ \A k \in DOMAIN calls[s] : calls[s][k] \notin ScopeCalls
                /\ ~out[s].returned)

\* ann asks for bob's email while both are stored
C21_Witness ==
    \E s \in Sessions :
        /\ req[s].kind = "update" /\ req[s].user_id = 1
        /\ req[s].given = [email |-> "b@x"]
        /\ out[s].raised = "ConflictError" /\ Finished(s)
        /\ calls[s] = <<"execute", "execute", "close">>
        /\ Bob \in db.users /\ Ann \in db.users

\* the stored user the update of s names, as s reads it
Target(s) == SelectById(View(s).users, req[s].user_id)

\* C22 as claimed: update_user changes only the fields the caller supplied:
\* its write leaves every field the caller did not supply (updated_at aside)
\* as it was, and an empty UserUpdate issues no write and no commit and
\* returns the user
C22_OnlySuppliedFields ==
    /\ [][\A s \in Sessions :
            (pc[s].at = "upd_update" /\ pc'[s].at = "commit") =>
                \A u \in Target(s) : \E v \in SelectById(work'[s].users, u.id) :
                    /\ \A c \in {"email", "username", "is_active"} :
                          c \notin DOMAIN req[s].given => v[c] = u[c]
                    /\ "password" \notin DOMAIN req[s].given
                          => v.hashed_password = u.hashed_password]_vars
    /\ [](\A s \in Sessions :
            (req[s].kind = "update" /\ req[s].given = NoData) =>
                \A k \in DOMAIN calls[s] : calls[s][k] \notin ScopeCalls)

\* C23 as claimed: a delete_user call ends either with NotFoundError, having
\* issued no write, or by returning True with the user removed and the
\* removal committed; it never returns False
C23_DeleteNeverFalse ==
    \A s \in Sessions :
        (req[s].kind = "delete" /\ Finished(s)) =>
            \/ /\ out[s].raised = "NotFoundError"
               /\ \A k \in DOMAIN calls[s] : calls[s][k] \notin ScopeCalls
            \/ /\ out[s].returned
               /\ req[s].result = "True"
               /\ Has(s, "commit")

\* C29: in every committed state no two stored users have the same email and
\* no two have the same username, whatever the interleaving of register_user,
\* update_user and delete_user calls on separate sessions
C29_UniqueUsers ==
    \A u \in db.users : \A v \in db.users :
        (u.email = v.email \/ u.username = v.username) => u = v

\* two updates raced for the same free email: the second write was refused by
\* the unique index after the first had committed
C29_Witness ==
    \E s \in Sessions :
        /\ req[s].kind = "update" /\ "email" \in DOMAIN req[s].given
        /\ out[s].raised = "IntegrityError" /\ Finished(s)
        /\ \E u \in db.users : /\ u.email = req[s].given.email
                               /\ u.id # req[s].user_id

----------------------------------------------------------------------------
(* A commit that raises at the exit of a scope *)

\* the body of the scope of s completed and its commit raised
CommitRaised(s) ==
    /\ BodyCompleted(s)
    /\ Has(s, "commit")
    /\ pc[s].err = "OperationalError"

\* C28: when session.commit raises at the exit of a scope whose body
\* completed normally, session.rollback is invoked next on that session, the
\* failure reaching the caller is the commit's, and none of the writes staged
\* on the session is committed
C28_CommitFailureRollsBack ==
    \A s \in Sessions :
        CommitRaised(s) =>
            /\ pc[s].at = "rollback" \/ Left(s)
            /\ Left(s) =>
                  /\ Has(s, "rollback")
                  /\ \A k \in DOMAIN calls[s] :
                        calls[s][k] = "rollback" => k = CommitAt(s) + 1
                  /\ out[s].raised = "OperationalError"
                  /\ ~out[s].returned
            /\ Committed(s, "pre") \cup Committed(s, "body") = {}

C28_Witness ==
    \E s \in Sessions :
        /\ CommitRaised(s) /\ pc[s].at = "done"
        /\ Cardinality(wrote[s]) >= 2
        /\ calls[s][Len(calls[s]) - 1] = "rollback"
        /\ out[s].raised = "OperationalError"

----------------------------------------------------------------------------
(* Repository writes on a session outside any transaction scope *)

\* the caller's own `await session.commit()`
CallCommit(s) ==
    /\ db' = View(s)
    /\ open' = [open EXCEPT ![s] = FALSE]
    /\ work' = [work EXCEPT ![s] = EmptyStore]
    /\ last' = [NoCall EXCEPT !.op = "commit", !.sess = s, !.before = db]
    /\ UNCHANGED <<clock, pc, req, out, calls, wrote>>

\* the code holding the session finishes: get_session resumes at its finally
HandlerReturns(s) ==
    /\ pc[s].at = "use"
    /\ pc' = [pc EXCEPT ![s] = [@ EXCEPT !.at = "close"]]
    /\ UNCHANGED <<db, open, work, clock, last, req, out, calls, wrote>>

BarePayloads == {[email |-> "b@x", username |-> "bob", hashed_password |-> "h1"]}

BareUpdates == {[is_active |-> FALSE]}

\* the ids the calls name: the stored user's and the created one's
BareIds == 1 .. 2

InitBare ==
    /\ db \in {EmptyStore, [EmptyStore EXCEPT !.users = {Ann}]}
    /\ open = [s \in Sessions |-> FALSE]
    /\ work = [s \in Sessions |-> EmptyStore]
    /\ clock = 0
    /\ last = NoCall
    /\ req = [s \in Sessions |-> [kind |-> "direct"]]
    /\ pc = [s \in Sessions |-> At("use", 0, 0, Null, "none")]
    /\ out = [s \in Sessions |-> NoOutcome]
    /\ calls = [s \in Sessions |-> <<>>]
    /\ wrote = [s \in Sessions |-> {}]

\* the session is still in the hands of the code that asked for it
InUse(s) == pc[s].at = "use"

NextBare ==
    \/ \E s \in Sessions, d \in BarePayloads : InUse(s) /\ CallCreate(s, d)
    \/ \E s \in Sessions, i \in BareIds : InUse(s) /\ CallGet(s, i)
    \/ \E s \in Sessions, i \in BareIds, d \in BareUpdates :
          InUse(s) /\ CallUpdate(s, i, d)
    \/ \E s \in Sessions, i \in BareIds : InUse(s) /\ CallDelete(s, i)
    \/ \E s \in Sessions : InUse(s) /\ CallCommit(s)
    \/ \E s \in Sessions : HandlerReturns(s)
    \/ \E s \in Sessions : SessionClose(s)

SpecBare == InitBare /\ [][NextBare]_vars

Writes == {"create", "update", "delete"}

\* C26: a create, update or delete made on a session outside any scope
\* changes nothing that is committed; a session with no work of its own
\* reads the committed store only; closing the session discards what it had
\* staged; the committed store changes only by a commit, which publishes
\* what the committing session had staged
C26_UncommittedInvisible ==
    [][/\ (last' # last /\ last'.op \in Writes) => db' = db
       /\ (last' # last /\ last'.op = "get" /\ ~open[last'.sess]) =>
              last'.ret = SelectById(db.users, last'.id)
       /\ \A s \in Sessions :
              (pc[s].at = "close" /\ pc'[s].at = "done") =>
                  /\ db' = db
                  /\ ~open'[s] /\ work'[s] = EmptyStore
       /\ db' # db =>
              /\ last'.op = "commit"
              /\ open[last'.sess] /\ db' = work[last'.sess]]_vars

\* a session looks for a user another session has staged and not committed,
\* and finds none
C26_Witness ==
    /\ last.op = "get" /\ last.ret = {}
    /\ \E s \in Sessions \ {last.sess} :
          /\ open[s]
          /\ \E r \in work[s].users : r.id = last.id

----------------------------------------------------------------------------
(* A transaction scope opened inside another one on the same session:
     async with transaction(session):        # outer
         create A
         async with transaction(session):    # inner
             create B
         create C
         create D                                                        *)

\* the scope an await of the nested program lies in, and what it stages
ScopeOf == [n_a |-> "outer", n_b |-> "inner", n_c |-> "outer", n_d |-> "outer"]
PhaseOf == [n_a |-> "first", n_b |-> "inner", n_c |-> "after", n_d |-> "after"]
CodeOf == [n_a |-> 1, n_b |-> 2, n_c |-> 3, n_d |-> 4]
AfterWrite ==
    [n_a |-> "n_b", n_b |-> "n_icommit", n_c |-> "n_d", n_d |-> OnNormalExit]

\* where control goes when e is raised at position `at`: to the except clause
\* of the innermost scope around it
HandlerAt(at, e) ==
    IF ScopeOf[at] = "inner" /\ Handler(e) = "rollback" THEN "n_irollback"
    ELSE Handler(e)

RaiseAt(s, e) ==
    /\ pc' = [pc EXCEPT ![s] = [@ EXCEPT !.at = HandlerAt(pc[s].at, e), !.err = e]]
    /\ out' = [out EXCEPT ![s] = [@ EXCEPT !.body = e]]

\* one repository create of the nested program
NestedCreate(s) ==
    /\ pc[s].at \in DOMAIN ScopeOf
    /\ CanWrite(s)
    /\ LET at == pc[s].at
           r == RepoCreate(View(s), "hotels",
                    [hotel_code |-> req[s].base + CodeOf[at], city |-> "pune",
                     price |-> 50], clock)
           stamped == Stamp(View(s), r.store, <<s, PhaseOf[at]>>)
       IN  /\ AfterCall(s, [r EXCEPT !.store = stamped], TRUE)
           /\ IF r.raised = "none"
              THEN /\ pc' = [pc EXCEPT ![s] = [@ EXCEPT !.at = AfterWrite[at]]]
                   /\ wrote' = [wrote EXCEPT ![s] =
                                  @ \cup {<<PhaseOf[at], "hotels", e.id>> : e \in r.ret}]
                   /\ out' = out
              ELSE /\ RaiseAt(s, r.raised)
                   /\ wrote' = wrote
    /\ Log(s, "flush")
    /\ UNCHANGED <<db, clock, last, req>>

\* a storage failure raised by the statement awaited at the position
NestedFails(s) ==
    /\ pc[s].at \in DOMAIN ScopeOf
    /\ RaiseAt(s, "OperationalError")
    /\ Log(s, "execute")
    /\ UNCHANGED <<db, open, work, clock, last, req, wrote>>

\* an inner scope that released a savepoint instead of committing
InnerCommit_Savepoint(s) ==
    /\ pc[s].at = "n_icommit"
    /\ pc' = [pc EXCEPT ![s] = [@ EXCEPT !.at = "n_c", !.i = 1]]
    /\ Log(s, "commit")
    /\ UNCHANGED <<db, open, work, clock, last, req, out, wrote>>

\* the inner scope is left normally: await session.commit()
InnerCommit(s) ==
    /\ pc[s].at = "n_icommit"
    /\ db' = View(s)
    /\ open' = [open EXCEPT ![s] = FALSE]
    /\ work' = [work EXCEPT ![s] = EmptyStore]
    /\ pc' = [pc EXCEPT ![s] = [@ EXCEPT !.at = "n_c", !.i = 1]]
    /\ Log(s, "commit")
    /\ UNCHANGED <<clock, last, req, out, wrote>>

\* the except clause of the inner scope: await session.rollback(); raise,
\* which the except clause of the outer scope catches
InnerRollback(s) ==
    /\ pc[s].at = "n_irollback"
    /\ open' = [open EXCEPT ![s] = FALSE]
    /\ work' = [work EXCEPT ![s] = EmptyStore]
    /\ pc' = [pc EXCEPT ![s] = [@ EXCEPT !.at = Handler(Reraise(pc[s].err))]]
    /\ Log(s, "rollback")
    /\ UNCHANGED <<db, clock, last, req, out, wrote>>

\* the hotel codes the two programs may use: the same ones, or others
NestedRequests == {[kind |-> "nested", base |-> b] : b \in {70, 80}}

InitNested ==
    /\ db = EmptyStore
    /\ open = [s \in Sessions |-> FALSE]
    /\ work = [s \in Sessions |-> EmptyStore]
    /\ clock = 0
    /\ last = NoCall
    /\ req \in [Sessions -> NestedRequests]
    /\ pc = [s \in Sessions |-> At("n_a", 0, 0, Null, "none")]
    /\ out = [s \in Sessions |-> NoOutcome]
    /\ calls = [s \in Sessions |-> <<>>]
    /\ wrote = [s \in Sessions |-> {}]

NextNested ==
    \/ \E s \in Sessions : NestedCreate(s)
    \/ \E s \in Sessions : NestedFails(s)
    \/ \E s \in Sessions : InnerCommit(s)
    \/ \E s \in Sessions : InnerRollback(s)
    \/ \E s \in Sessions : TxCommit(s)
    \/ \E s \in Sessions : TxRollback(s)
    \/ \E s \in Sessions : SessionClose(s)

SpecNested == InitNested /\ [][NextNested]_vars

\* the inner scope of s has been left normally
InnerLeft(s) == pc[s].i = 1

\* what s staged in the given phases of its program
Staged(s, phases) == {w \in wrote[s] : w[1] \in phases}

\* C27: the inner scope opens no sub-transaction: once it is left normally,
\* everything the session had staged by then, in the outer scope and in the
\* inner one, is committed and stays so; when the outer scope fails
\* afterwards, its rollback discards only what was staged after the inner
\* commit, and the failure is re-raised
C27_NestedScopeCommits ==
    \A s \in Sessions :
        InnerLeft(s) =>
            /\ Staged(s, {"first", "inner"}) # {}
            /\ Committed(s, "first") \cup Committed(s, "inner")
                  = Staged(s, {"first", "inner"})
            /\ (out[s].body \in Exceptions /\ Left(s)) =>
                  /\ Committed(s, "after") = {}
                  /\ Count(s, "rollback") = 1
                  /\ out[s].raised = out[s].body

\* the outer scope failed after having staged another hotel, the inner scope
\* having committed before
C27_Witness ==
    \E s \in Sessions :
        /\ InnerLeft(s) /\ pc[s].at = "done"
        /\ out[s].body = "OperationalError"
        /\ Cardinality(Committed(s, "first") \cup Committed(s, "inner")) = 2
        /\ Staged(s, {"after"}) # {}
        /\ Committed(s, "after") = {}

----------------------------------------------------------------------------
(* list_hotels_with_filters while another session commits hotels *)

\* the session that writes
WriterSessions == Sessions \ RepoSessions

\* the hotel the writer inserts, one with a code no stored hotel has: it
\* satisfies every listing of RaceArgs
Arrival == [hotel_code |-> 79, city |-> "Pune", price |-> 120, ratings |-> 40]

\* async with transaction(session): await hotel_repository.create(...)
RaceInsert(s) ==
    /\ pc[s].at = "idle"
    /\ CanWrite(s)
    /\ LET r == RepoCreate(View(s), "hotels", Arrival, clock)
       IN  /\ AfterCall(s, r, TRUE)
           /\ r.raised = "none"
    /\ pc' = [pc EXCEPT ![s] = [@ EXCEPT !.at = OnNormalExit]]
    /\ Log(s, "flush")
    /\ UNCHANGED <<db, clock, last, req, out, wrote>>

\* async with transaction(session): await hotel_repository.delete(session, id)
RaceDelete(s, id) ==
    /\ pc[s].at = "idle"
    /\ CanWrite(s)
    /\ LET r == RepoDelete(View(s), "hotels", id)
       IN  AfterCall(s, r, FALSE)
    /\ pc' = [pc EXCEPT ![s] = [@ EXCEPT !.at = OnNormalExit]]
    /\ Log(s, "delete")
    /\ UNCHANGED <<db, clock, last, req, out, wrote>>

RaceArgs ==
    {[skip |-> 0, limit |-> 2, price_min |-> 100],
     [skip |-> 1, limit |-> 3, sort_by |-> "priceLowToHigh"]}

RaceRequests == {[kind |-> "list_hotels_with_filters", args |-> a] : a \in RaceArgs}

RaceStores ==
    {[EmptyStore EXCEPT !.hotels = hs] : hs \in SUBSET Catalogue}

InitRace ==
    /\ db \in RaceStores
    /\ open = [s \in Sessions |-> FALSE]
    /\ work = [s \in Sessions |-> EmptyStore]
    /\ clock = 0
    /\ last = NoCall
    /\ NoRequest

NextRace ==
    \/ \E s \in RepoSessions, r \in RaceRequests : ListBegin(s, r)
    \/ \E s \in RepoSessions : ListCount(s)
    \/ \E s \in RepoSessions : ListPage(s)
    \/ \E s \in WriterSessions : RaceInsert(s)
    \/ \E s \in WriterSessions, i \in 1 .. MaxId : RaceDelete(s, i)
    \/ \E s \in WriterSessions : TxCommit(s)
    \/ \E s \in WriterSessions : SessionClose(s)

SpecRace == InitRace /\ [][NextRace]_vars

\* C30 as claimed: the page and the total of one list_hotels_with_filters
\* call describe one snapshot of the store: the number of items returned is
\* min(limit, max(0, total - skip)), whatever other sessions commit between
\* the count query and the page query
C30_PageMatchesTotal ==
    Listed =>
        Len(last.items)
            = Min(last.args.limit, Max({0, last.total - last.args.skip}))

----------------------------------------------------------------------------
(* Consecutive pages of Repository.list *)

\* the orders in which the engine may return the rows of a statement that
\* has no ORDER BY: SQL leaves the order of such a result undefined, so every
\* enumeration of the rows is one; EngineOrder(rows, "none", 1) is the one
\* that follows the primary key
ScanOrders(rows) ==
    {q \in [1 .. Cardinality(rows) -> rows] :
        \A i, j \in DOMAIN q : q[i] = q[j] => i = j}

\* the results a statement may yield
ExecuteAny(view, stmt) ==
    {Paginate(q, stmt.offset, stmt.limit) :
        q \in ScanOrders(SelectBy(view[stmt.t], stmt.where))}

\* the lists one call of Repository.list may return
RepoListAny(view, t, stmt, skip, limit) ==
    ExecuteAny(view, WithLimit(WithOffset(IF stmt = NoStmt THEN Select(t, NoData)
                                          ELSE stmt, skip), limit))

PageUser(i) ==
    NewRow("users", {},
           [id |-> i, email |-> <<"a@x", "b@x", "c@x", "d@x">>[i],
            username |-> <<"ann", "bob", "cy", "di">>[i],
            hashed_password |-> "h1", is_active |-> (i # 2)], 0)

PageStores ==
    {[EmptyStore EXCEPT !.users = us] : us \in SUBSET {PageUser(i) : i \in 1 .. 4}}

\* the page lengths n and the page numbers k of the two calls
PageLens == 1 .. 2
PageNumbers == 0 .. 1

PageStatements == {NoStmt, Select("users", [is_active |-> TRUE])}

\* the caller asks for page k of length n
FirstPage(s, stmt, n, k) ==
    /\ pc[s].at = "idle"
    /\ \E page \in RepoListAny(View(s), "users", stmt, k * n, n) :
          last' = [op |-> "page", sess |-> s, stmt |-> stmt, n |-> n, k |-> k,
                   first |-> page, second |-> <<>>, before |-> View(s)]
    /\ pc' = [pc EXCEPT ![s] = [@ EXCEPT !.at = "next_page"]]
    /\ UNCHANGED <<db, open, work, clock, req, out, calls, wrote>>

\* and then for page k + 1 of the same statement
SecondPage(s) ==
    /\ pc[s].at = "next_page"
    /\ \E page \in RepoListAny(View(s), "users", last.stmt,
                               (last.k + 1) * last.n, last.n) :
          last' = [last EXCEPT !.op = "pages", !.second = page]
    /\ pc' = [pc EXCEPT ![s] = [@ EXCEPT !.at = "done"]]
    /\ UNCHANGED <<db, open, work, clock, req, out, calls, wrote>>

InitPages ==
    /\ db \in PageStores
    /\ open = [s \in Sessions |-> FALSE]
    /\ work = [s \in Sessions |-> EmptyStore]
    /\ clock = 0
    /\ last = NoCall
    /\ NoRequest

NextPages ==
    \/ \E s \in RepoSessions, q \in PageStatements, n \in PageLens,
          k \in PageNumbers : FirstPage(s, q, n, k)
    \/ \E s \in RepoSessions : SecondPage(s)

SpecPages == InitPages /\ [][NextPages]_vars

----------------------------------------------------------------------------
(* The life of a session handed out by get_db: booking_db/connection.py.
   get_db iterates get_session with `async for` and yields the session on;
   get_session closes the session in the finally around its own yield.  A
   consumer that resumes get_db runs both generators to their end.  A consumer
   that throws into get_db, or that leaves its own `async for` early, leaves
   get_session suspended at its yield: its finally runs when the generator is
   finalised, which the event loop schedules after the generator object has
   been dropped *)

\* how the code that was handed the session leaves it
Consumers == {"returns", "raises", "breaks"}

\* a route with Depends(get_db) returns: the dependency is resumed, get_db
\* asks get_session for the next session, get_session reaches its finally
RequestReturns(s) ==
    /\ req[s].kind = "returns"
    /\ HandlerReturns(s)

\* a route with Depends(get_db) raises: the failure is thrown into get_db at
\* its yield and leaves it; get_session stays suspended
RequestRaises(s) ==
    /\ req[s].kind = "raises"
    /\ pc[s].at = "use"
    /\ pc' = [pc EXCEPT ![s] = [@ EXCEPT !.at = "suspended", !.err = "OperationalError"]]
    /\ out' = [out EXCEPT ![s] = [@ EXCEPT !.raised = "OperationalError"]]
    /\ UNCHANGED <<db, open, work, clock, last, req, calls, wrote>>

\* lifespan: async for session in get_db(): ...; break
LoopBreaks(s) ==
    /\ req[s].kind = "breaks"
    /\ pc[s].at = "use"
    /\ pc' = [pc EXCEPT ![s] = [@ EXCEPT !.at = "suspended"]]
    /\ out' = [out EXCEPT ![s] = [@ EXCEPT !.returned = TRUE]]
    /\ UNCHANGED <<db, open, work, clock, last, req, calls, wrote>>

\* the event loop finalises the dropped generators: aclose() raises
\* GeneratorExit at the yield of get_session, whose finally then runs
Finalise(s) ==
    /\ pc[s].at = "suspended"
    /\ pc' = [pc EXCEPT ![s] = [@ EXCEPT !.at = "close"]]
    /\ UNCHANGED <<db, open, work, clock, last, req, out, calls, wrote>>

InitSessions ==
    /\ db = EmptyStore
    /\ open = [s \in Sessions |-> FALSE]
    /\ work = [s \in Sessions |-> EmptyStore]
    /\ clock = 0
    /\ last = NoCall
    /\ req \in [Sessions -> {[kind |-> k] : k \in Consumers}]
    /\ pc = [s \in Sessions |-> At("use", 0, 0, Null, "none")]
    /\ out = [s \in Sessions |-> NoOutcome]
    /\ calls = [s \in Sessions |-> <<>>]
    /\ wrote = [s \in Sessions |-> {}]

NextSessions ==
    \/ \E s \in Sessions, d \in BarePayloads : InUse(s) /\ CallCreate(s, d)
    \/ \E s \in Sessions : InUse(s) /\ CallCommit(s)
    \/ \E s \in Sessions : RequestReturns(s)
    \/ \E s \in Sessions : RequestRaises(s)
    \/ \E s \in Sessions : LoopBreaks(s)
    \/ \E s \in Sessions : Finalise(s)
    \/ \E s \in Sessions : SessionClose(s)

SpecSessions == InitSessions /\ [][NextSessions]_vars

\* the code that was handed the session of s has finished with it: the
\* request has been answered, or the loop over get_db has been left
Completed(s) ==
    \/ pc[s].at = "done"
    \/ out[s].returned
    \/ out[s].raised # "none"

Closed(s) == Has(s, "close")

\* C24 as claimed: a session is closed exactly when its request completes, on
\* every exit path (normal completion, a failure raised by the handler, a
\* consumer that stops iterating early): no session whose request has
\* completed is still open
C24_ClosedOnCompletion ==
    \A s \in Sessions : Completed(s) => Closed(s)

====
